---- MODULE Spec2Model ----
(***************************************************************************)
(* State-machine model of the reconstruct API server (server.js,          *)
(* config/database.js): the request handlers of the task, calendar and    *)
(* mind-tools endpoints over the MySQL tables they read and write.         *)
(*                                                                         *)
(* A handler runs synchronously up to its next `await query(...)`; every  *)
(* query is one atomic step at the database.  A request therefore is a    *)
(* small process: Recv (gate and synchronous prefix), then one step per   *)
(* awaited query together with the synchronous code that follows it.      *)
(*                                                                         *)
(* Text a handler parses (the Authorization header of the pseudo-token    *)
(* gate, the identity it yields) is a sequence of symbols; text a handler *)
(* only compares or stores (card ids, themes, table names, dates) is an   *)
(* atom.  A JSON body is a record whose domain is the set of fields the   *)
(* client sent.                                                            *)
(***************************************************************************)
EXTENDS Integers, Sequences, FiniteSets, TLC

VARIABLES
    user,                  \* table `user`: rows [id, name, email]
    task_rows,             \* the three task-collection tables, by table name
    calendar_2025_tasks,   \* table calendar_2025_tasks
    mind_tools_activity,   \* table mind_tools_activity
    nextId,                \* AUTO_INCREMENT counter of each table
    pc,                    \* per request slot: the query the handler awaits
    req,                   \* per request slot: the request being handled
    loc,                   \* per request slot: the handler's local variables
    resp,                  \* per request slot: the last response sent
    calls,                 \* number of requests received so far
    held,                  \* pool connections handed out and not yet released
    boot                   \* testConnection: the promise and its attempts

vars == <<user, task_rows, calendar_2025_tasks, mind_tools_activity, nextId,
          pc, req, loc, resp, calls, held, boot>>

(***************************************************************************)
(* Bounds of the model.                                                    *)
(***************************************************************************)
MaxReq == 2        \* request slots (requests that can be in flight together)
MaxCalls == 3      \* requests received in one behaviour
MaxBatch == 3      \* items in the activities array of a sync request
MaxBurst == 5      \* requests in flight together in a burst of sign-ins
MaxWriters == 3    \* requests in flight together for one counter

Req == 1 .. MaxReq

(***************************************************************************)
(* JavaScript values.                                                      *)
(***************************************************************************)
Has(b, f) == f \in DOMAIN b

\* !x for a text (symbol sequence) field: undefined or ''
FalsyText(b, f) == ~Has(b, f) \/ b[f] = <<>>

\* !x for an atom (string) field: undefined or ''
FalsyStr(b, f) == ~Has(b, f) \/ b[f] = ""

\* !x for a numeric field: undefined or 0
FalsyNum(b, f) == ~Has(b, f) \/ b[f] = 0

\* !x for a boolean field: undefined or false
FalsyBool(b, f) == ~Has(b, f) \/ b[f] = FALSE

\* the body restricted to the fields the client sent
Fields(b, S) == [f \in S |-> b[f]]

\* String.prototype.split(sep) for a one-symbol separator
RECURSIVE SplitOn(_, _)
SplitOn(s, sep) ==
    IF \A i \in 1 .. Len(s) : s[i] # sep
    THEN <<s>>
    ELSE LET k == CHOOSE i \in 1 .. Len(s) :
                      s[i] = sep /\ \A j \in 1 .. (i - 1) : s[j] # sep
         IN  <<SubSeq(s, 1, k - 1)>> \o SplitOn(SubSeq(s, k + 1, Len(s)), sep)

(***************************************************************************)
(* The tables.                                                             *)
(***************************************************************************)
TaskTables == {"vision_board_tasks", "weekly_planner_tasks", "annual_calendar_tasks"}
AllTables == TaskTables \cup {"calendar_2025_tasks", "mind_tools_activity"}

\* variant: the existence check leaves card_id out of its WHERE clause
TaskMatchesNoCard(rows, un, em, card, th) ==
    {x \in rows : x.user_name = un /\ x.email = em /\ x.theme = th}

\* SELECT id FROM <table> WHERE user_name = ? AND email = ? AND card_id = ? AND theme = ?
TaskMatches(rows, un, em, card, th) ==
    {x \in rows : x.user_name = un /\ x.email = em /\ x.card_id = card /\ x.theme = th}

\* existingRecords[0].id: the first row of the result, 0 when the result is
\* empty.  The SELECT has no ORDER BY, so any matching row can come first.
FirstIds(matches) == IF matches = {} THEN {0} ELSE {x.id : x \in matches}

(***************************************************************************)
(* Responses and slot bookkeeping.                                         *)
(***************************************************************************)
NoReq == [ep |-> "none"]
NoLoc == [nq |-> 0]
NoResp == [n |-> 0, status |-> 0]

\* testConnection has settled, or was never called
NoBoot == [state |-> "none"]

\* res.status(s).json(...): the request of slot r is answered; data holds
\* the fields of the JSON the claims read
ReplyWith(r, q, n, status, nq, data) ==
    /\ resp' = [resp EXCEPT ![r] =
                   [n |-> n, req |-> q, status |-> status, nq |-> nq] @@ data]
    /\ pc' = [pc EXCEPT ![r] = "idle"]
    /\ req' = [req EXCEPT ![r] = NoReq]
    /\ loc' = [loc EXCEPT ![r] = NoLoc]

\* a response that carries a row id (0: none)
Reply(r, q, n, status, id, nq) == ReplyWith(r, q, n, status, nq, [id |-> id])

\* the handler of slot r suspends on its next query
Await(r, q, label, l) ==
    /\ pc' = [pc EXCEPT ![r] = label]
    /\ req' = [req EXCEPT ![r] = q]
    /\ loc' = [loc EXCEPT ![r] = l]
    /\ UNCHANGED resp

\* A request is received by a free slot while the behaviour's budget of
\* requests lasts.  Slots are interchangeable, so the model fixes which free
\* slot takes it.  mode "conc": requests in flight together, the lowest free
\* slot.  mode "serial": requests executed one after another (no other
\* request is in flight), the slots in rotation.  mode "one": the behaviour
\* is a single request.  mode "client": one client on one connection, which
\* sends its next request when it has read the response to the last one.
\* mode "burst": as many requests as there are slots, each on a slot of its
\* own.
CanRecv(r, mode) ==
    /\ pc[r] = "idle"
    /\ mode # "burst" => calls < MaxCalls
    /\ mode = "burst" => r = calls + 1
    /\ mode = "conc" => \A o \in 1 .. (r - 1) : pc[o] # "idle"
    /\ mode = "serial" => (\A o \in Req : pc[o] = "idle") /\ r = (calls % MaxReq) + 1
    /\ mode = "one" => calls = 0 /\ r = 1
    /\ mode = "client" => r = 1 /\ resp[r] = NoResp

\* the client reads the response of slot r off the connection
Deliver(r) ==
    /\ pc[r] = "idle"
    /\ resp[r] # NoResp
    /\ resp' = [resp EXCEPT ![r] = NoResp]
    /\ UNCHANGED <<held, boot, user, task_rows, calendar_2025_tasks, mind_tools_activity, nextId,
                   pc, req, loc, calls>>

UnchangedDb ==
    UNCHANGED <<held, boot, user, task_rows, calendar_2025_tasks, mind_tools_activity,
                nextId>>

(***************************************************************************)
(* authenticateUserByToken: the pseudo-token gate.                         *)
(***************************************************************************)
BearerSym == "Bearer "

GateReject == [ok |-> FALSE]

authenticateUserByToken(h) ==
    IF h = <<>> \/ h[1] # BearerSym
    THEN GateReject
    ELSE LET token == SplitOn(h, BearerSym)[2]
             parts == SplitOn(token, ":")
         IN  IF parts[1] = <<>> \/ Len(parts) < 2 \/ parts[2] = <<>>
             THEN GateReject
             ELSE [ok |-> TRUE, user_name |-> parts[1], email |-> parts[2]]

(***************************************************************************)
(* POST /api/tasks/save                                                    *)
(***************************************************************************)
\* variant: the handler without its table allowlist
TasksSaveCheckNoAllowlist(q) ==
    LET g == authenticateUserByToken(q.auth)
        b == q.body
    IN  IF ~g.ok THEN 401
        ELSE IF \/ FalsyText(b, "user_name") \/ FalsyText(b, "email")
                \/ FalsyStr(b, "card_id") \/ FalsyStr(b, "tasks")
                \/ FalsyStr(b, "theme") \/ FalsyStr(b, "table")
        THEN 400
        ELSE IF b.user_name # g.user_name \/ b.email # g.email
        THEN 403
        ELSE 0

\* the synchronous prefix: 0 when the request goes on to its first query,
\* otherwise the status of the immediate rejection
TasksSaveCheck(q) ==
    LET g == authenticateUserByToken(q.auth)
        b == q.body
    IN  IF ~g.ok THEN 401
        ELSE IF \/ FalsyText(b, "user_name") \/ FalsyText(b, "email")
                \/ FalsyStr(b, "card_id") \/ FalsyStr(b, "tasks")
                \/ FalsyStr(b, "theme") \/ FalsyStr(b, "table")
        THEN 400
        ELSE IF b.user_name # g.user_name \/ b.email # g.email
        THEN 403
        ELSE IF b.table # "vision_board_tasks" /\ b.table # "weekly_planner_tasks"
        THEN 400
        ELSE 0

\* a request of the set Q arrives: the gate and the checks up to the first query
TasksSaveRecv(r, Q, mode) ==
    /\ CanRecv(r, mode)
    /\ calls' = calls + 1
    /\ UnchangedDb
    /\ \E q \in Q :
          /\ q.ep = "tasks_save"
          /\ LET s == TasksSaveCheck(q)
             IN  IF s # 0
                 THEN Reply(r, q, calls + 1, s, 0, 0)
                 ELSE Await(r, q, "tasks_select", [nq |-> 0, n |-> calls + 1])


\* const existingRecords = await query(`SELECT id FROM ${table} WHERE ...`)
TasksSaveSelect(r) ==
    /\ pc[r] = "tasks_select"
    /\ LET b == req[r].body
       IN  \E e \in FirstIds(TaskMatches(task_rows[b.table], b.user_name, b.email,
                                         b.card_id, b.theme)) :
               Await(r, req[r], "tasks_write",
                     [loc[r] EXCEPT !.nq = @ + 1] @@ [existing |-> e])
    /\ UNCHANGED calls
    /\ UnchangedDb

\* UPDATE <table> SET tasks = ?, updated_at = NOW() WHERE id = ?
UpdateTasks(rows, id, tasks) ==
    {IF x.id = id THEN [x EXCEPT !.tasks = tasks] ELSE x : x \in rows}

\* variant: the insert is conditional on the natural key being free (a unique
\* key with INSERT IGNORE)
InsertTaskUnique(rows, id, un, em, card, tasks, th) ==
    IF TaskMatches(rows, un, em, card, th) # {}
    THEN rows
    ELSE rows \cup {[id |-> id, user_name |-> un, email |-> em, card_id |-> card,
                     tasks |-> tasks, theme |-> th]}

\* INSERT INTO <table> (user_name, email, card_id, tasks, theme) VALUES (...)
InsertTask(rows, id, un, em, card, tasks, th) ==
    rows \cup {[id |-> id, user_name |-> un, email |-> em, card_id |-> card,
                tasks |-> tasks, theme |-> th]}

\* the branch on existingRecords.length and the UPDATE or INSERT it awaits
TaskUpsertWrite(r, table, un, em) ==
    LET b == req[r].body
        e == loc[r].existing
    IN  IF e # 0
        THEN /\ task_rows' = [task_rows EXCEPT ![table] = UpdateTasks(@, e, b.tasks)]
             /\ UNCHANGED nextId
             /\ Reply(r, req[r], loc[r].n, 200, e, loc[r].nq + 1)
        ELSE /\ task_rows' = [task_rows EXCEPT ![table] =
                                 InsertTask(@, nextId[table], un, em, b.card_id,
                                            b.tasks, b.theme)]
             /\ nextId' = [nextId EXCEPT ![table] = @ + 1]
             /\ Reply(r, req[r], loc[r].n, 201, nextId[table], loc[r].nq + 1)

TasksSaveWrite(r) ==
    /\ pc[r] = "tasks_write"
    /\ TaskUpsertWrite(r, req[r].body.table, req[r].body.user_name, req[r].body.email)
    /\ UNCHANGED <<held, boot, user, calendar_2025_tasks, mind_tools_activity, calls>>

(***************************************************************************)
(* The signed-token gate of the annual-calendar, weekly-planner and       *)
(* mind-tools handlers: header check, jwt.verify, then the user lookup.   *)
(* jwt.verify is the library's: a token verifies when its signature is    *)
(* good and it has not expired, and then yields the id it carries.        *)
(***************************************************************************)
\* !authHeader || !authHeader.startsWith('Bearer ')
NoBearer(h) == h.scheme # "Bearer"

\* jwt.verify(token, JWT_SECRET, cb) reports an error
JwtVerifyFails(h) == h.sig # "ok" \/ h.expired

\* 0 when the handler goes on to the user lookup, else the status it sends
JwtGateCheck(h) ==
    IF NoBearer(h) THEN 401
    ELSE IF JwtVerifyFails(h) THEN 401
    ELSE 0

JwtEndpoints == {"annual_save", "weekly_save", "activity", "sync"}

\* the handler up to `await query('SELECT id, name, email FROM user WHERE id = ?')`
JwtRecv(r, Q, mode) ==
    /\ CanRecv(r, mode)
    /\ calls' = calls + 1
    /\ UnchangedDb
    /\ \E q \in Q :
          /\ q.ep \in JwtEndpoints
          /\ LET s == JwtGateCheck(q.auth)
             IN  IF s # 0
                 THEN Reply(r, q, calls + 1, s, 0, 0)
                 ELSE Await(r, q, "user_select", [nq |-> 0, n |-> calls + 1])

\* SELECT id, name, email FROM user WHERE id = ?  (id is the primary key)
UserById(id) == {u \in user : u.id = id}

(***************************************************************************)
(* POST /annual-calendar/tasks and POST /weekly-planner/tasks              *)
(***************************************************************************)
JwtSaveTable(ep) ==
    IF ep = "annual_save" THEN "annual_calendar_tasks" ELSE "weekly_planner_tasks"

\* the user lookup returns; the body is validated; the existence check is issued
JwtSaveUser(r) ==
    /\ pc[r] = "user_select"
    /\ req[r].ep \in {"annual_save", "weekly_save"}
    /\ UNCHANGED calls
    /\ UnchangedDb
    /\ LET b == req[r].body
           found == UserById(req[r].auth.id)
       IN  IF found = {}
           THEN Reply(r, req[r], loc[r].n, 404, 0, loc[r].nq + 1)
           ELSE IF FalsyStr(b, "card_id") \/ FalsyStr(b, "tasks") \/ FalsyStr(b, "theme")
           THEN Reply(r, req[r], loc[r].n, 400, 0, loc[r].nq + 1)
           ELSE \E u \in found :
                    Await(r, req[r], "jwt_select",
                          [loc[r] EXCEPT !.nq = @ + 1] @@
                          [user_name |-> u.name, email |-> u.email])

\* const existingTask = await query('SELECT id FROM <table> WHERE ...')
JwtSaveSelect(r) ==
    /\ pc[r] = "jwt_select"
    /\ LET b == req[r].body
       IN  \E e \in FirstIds(TaskMatches(task_rows[JwtSaveTable(req[r].ep)],
                                         loc[r].user_name, loc[r].email,
                                         b.card_id, b.theme)) :
               Await(r, req[r], "jwt_write",
                     [loc[r] EXCEPT !.nq = @ + 1] @@ [existing |-> e])
    /\ UNCHANGED calls
    /\ UnchangedDb

JwtSaveWrite(r) ==
    /\ pc[r] = "jwt_write"
    /\ TaskUpsertWrite(r, JwtSaveTable(req[r].ep), loc[r].user_name, loc[r].email)
    /\ UNCHANGED <<held, boot, user, calendar_2025_tasks, mind_tools_activity, calls>>

(***************************************************************************)
(* POST /api/calendar/save                                                 *)
(***************************************************************************)
\* user_name !== requestUser.user_name || email !== requestUser.email
\* (an absent body field is undefined and differs from every gate identity)
CalendarMismatch(b, g) ==
    \/ ~Has(b, "user_name") \/ b.user_name # g.user_name
    \/ ~Has(b, "email") \/ b.email # g.email

\* the synchronous prefix: the status of an immediate rejection, or 0 and
\* the query the handler goes on to
CalendarSaveCheck(q) ==
    LET g == authenticateUserByToken(q.auth)
        b == q.body
    IN  IF ~g.ok THEN [status |-> 401, next |-> "none"]
        ELSE IF CalendarMismatch(b, g) THEN [status |-> 403, next |-> "none"]
        ELSE IF ~FalsyBool(b, "delete") /\ ~FalsyNum(b, "id")
        THEN [status |-> 0, next |-> "cal_delete"]
        ELSE IF ~FalsyNum(b, "id") THEN [status |-> 0, next |-> "cal_update"]
        ELSE IF \/ FalsyStr(b, "task_date") \/ FalsyNum(b, "task_type")
                \/ FalsyStr(b, "task_description") \/ FalsyStr(b, "color_code")
                \/ FalsyStr(b, "theme")
        THEN [status |-> 400, next |-> "none"]
        ELSE [status |-> 0, next |-> "cal_select"]

CalendarSaveRecv(r, Q, mode) ==
    /\ CanRecv(r, mode)
    /\ calls' = calls + 1
    /\ UnchangedDb
    /\ \E q \in Q :
          /\ q.ep = "calendar_save"
          /\ LET c == CalendarSaveCheck(q)
             IN  IF c.status # 0
                 THEN Reply(r, q, calls + 1, c.status, 0, 0)
                 ELSE Await(r, q, c.next, [nq |-> 0, n |-> calls + 1])

\* variant: the WHERE clause names the owner but not the row id
CalendarOwnedAnyId(id, un, em) ==
    {x \in calendar_2025_tasks : x.user_name = un /\ x.email = em}

\* the rows WHERE id = ? AND user_name = ? AND email = ?
CalendarOwned(id, un, em) ==
    {x \in calendar_2025_tasks : x.id = id /\ x.user_name = un /\ x.email = em}

\* DELETE FROM calendar_2025_tasks WHERE id = ? AND user_name = ? AND email = ?
CalendarSaveDelete(r) ==
    /\ pc[r] = "cal_delete"
    /\ LET b == req[r].body
           hit == CalendarOwned(b.id, b.user_name, b.email)
       IN  /\ calendar_2025_tasks' = calendar_2025_tasks \ hit
           /\ Reply(r, req[r], loc[r].n, IF hit # {} THEN 200 ELSE 404,
                    IF hit # {} THEN b.id ELSE 0, loc[r].nq + 1)
    /\ UNCHANGED <<held, boot, user, task_rows, mind_tools_activity, nextId, calls>>

\* the latest timestamp a calendar row carries
Latest ==
    IF calendar_2025_tasks = {} THEN 0
    ELSE CHOOSE t \in {x.updated_at : x \in calendar_2025_tasks} :
             \A x \in calendar_2025_tasks : x.updated_at <= t

\* NOW(): the clock never runs behind a timestamp it has handed out; T holds
\* the amounts of time that can have passed since
Now(T) == {Latest + d : d \in T}

\* the columns of the dynamic SET clause: the fields the payload carries
CalendarSetFields(b) ==
    {f \in {"task_type", "task_description", "color_code", "task_date", "theme"} :
        Has(b, f)}

\* a row with the columns in S set from the payload
SetColumns(x, b, S) == [f \in DOMAIN x |-> IF f \in S THEN b[f] ELSE x[f]]

\* UPDATE calendar_2025_tasks SET <present fields>, updated_at = NOW()
\*   WHERE id = ? AND user_name = ? AND email = ?
CalendarSaveUpdate(r, T) ==
    /\ pc[r] = "cal_update"
    /\ LET b == req[r].body
           hit == CalendarOwned(b.id, b.user_name, b.email)
       IN  /\ \E now \in Now(T) :
                  calendar_2025_tasks' =
                      (calendar_2025_tasks \ hit) \cup
                      {[SetColumns(x, b, CalendarSetFields(b)) EXCEPT !.updated_at = now] :
                          x \in hit}
           /\ Reply(r, req[r], loc[r].n, IF hit # {} THEN 200 ELSE 404,
                    IF hit # {} THEN b.id ELSE 0, loc[r].nq + 1)
    /\ UNCHANGED <<held, boot, user, task_rows, mind_tools_activity, nextId, calls>>

\* SELECT id FROM calendar_2025_tasks
\*   WHERE user_name = ? AND email = ? AND task_date = ? AND theme = ?
CalendarMatches(un, em, date, th) ==
    {x \in calendar_2025_tasks :
        x.user_name = un /\ x.email = em /\ x.task_date = date /\ x.theme = th}

CalendarSaveSelect(r) ==
    /\ pc[r] = "cal_select"
    /\ LET b == req[r].body
       IN  \E e \in FirstIds(CalendarMatches(b.user_name, b.email, b.task_date, b.theme)) :
               Await(r, req[r], "cal_write",
                     [loc[r] EXCEPT !.nq = @ + 1] @@ [existing |-> e])
    /\ UNCHANGED calls
    /\ UnchangedDb

\* UPDATE ... SET task_type = ?, task_description = ?, color_code = ?,
\*   updated_at = NOW() WHERE id = ?
\* or INSERT INTO calendar_2025_tasks (...) VALUES (...)
CalendarSaveWrite(r, T) ==
    /\ pc[r] = "cal_write"
    /\ \E now \in Now(T) :
       LET b == req[r].body
           e == loc[r].existing
           id == nextId["calendar_2025_tasks"]
       IN  IF e # 0
           THEN /\ calendar_2025_tasks' =
                       {IF x.id = e
                        THEN [SetColumns(x, b, {"task_type", "task_description",
                                                "color_code"})
                                 EXCEPT !.updated_at = now]
                        ELSE x : x \in calendar_2025_tasks}
                /\ UNCHANGED nextId
                /\ Reply(r, req[r], loc[r].n, 200, e, loc[r].nq + 1)
           ELSE /\ calendar_2025_tasks' = calendar_2025_tasks \cup
                       {[id |-> id, user_name |-> b.user_name, email |-> b.email,
                         task_date |-> b.task_date, task_type |-> b.task_type,
                         task_description |-> b.task_description,
                         color_code |-> b.color_code, theme |-> b.theme,
                         updated_at |-> now]}
                /\ nextId' = [nextId EXCEPT !["calendar_2025_tasks"] = @ + 1]
                /\ Reply(r, req[r], loc[r].n, 201, id, loc[r].nq + 1)
    /\ UNCHANGED <<held, boot, user, task_rows, mind_tools_activity, calls>>

(***************************************************************************)
(* The mind-tools counters.                                                *)
(***************************************************************************)
validTrackers == {"thought_shredder", "make_me_smile", "bubble_wrap_popper", "break_things"}

\* the day the server's clock shows: new Date() when no activity_date is sent
Today == "2025-01-02"

\* new Date(s).toISOString().split('T')[0]: the UTC day of a date string the
\* Date constructor parses; "" when it does not (toISOString then throws)
FormatDate(s) ==
    CASE s = "2025-01-01" -> "2025-01-01"
      [] s = "2025-01-01T09:30:00Z" -> "2025-01-01"
      [] s = "2025-01-02" -> "2025-01-02"
      [] OTHER -> ""

\* count || 1
CountOr1(item) == IF FalsyNum(item, "count") THEN 1 ELSE item.count

\* SELECT id, count FROM mind_tools_activity
\*   WHERE email = ? AND tracker_type = ? AND activity_date = ?
CounterRows(rows, em, tracker, date) ==
    {x \in rows : x.email = em /\ x.tracker_type = tracker /\ x.activity_date = date}

\* variant: last writer wins, the client's count replaces any other count
NeedsUpdateAnyChange(stored, c) == stored # c

\* existingRecord[0].count < (count || 1)
NeedsUpdate(stored, c) == stored < c

\* variant: the increment is lost
newCountSame(stored) == stored

\* const newCount = existingRecord[0].count + 1
newCount(stored) == stored + 1

\* existingRecord[0], or a row of id 0 when the result is empty (the SELECT
\* has no ORDER BY: any matching row can come first)
FirstRows(matches) == IF matches = {} THEN {[id |-> 0, count |-> 0]} ELSE matches

\* UPDATE mind_tools_activity SET count = ? WHERE id = ?
SetCount(rows, id, c) == {IF x.id = id THEN [x EXCEPT !.count = c] ELSE x : x \in rows}

\* INSERT INTO mind_tools_activity (user_name, email, tracker_type, activity_date, count)
InsertCounter(rows, id, un, em, tracker, date, c) ==
    rows \cup {[id |-> id, user_name |-> un, email |-> em, tracker_type |-> tracker,
                activity_date |-> date, count |-> c]}

(***************************************************************************)
(* POST /api/mind-tools/sync                                               *)
(***************************************************************************)
\* results.push({success: false, message, data: activity})
ItemFailed(item, msg) == [success |-> FALSE, message |-> msg, item |-> item]

\* results.push({success: true, message, data: {tracker_type, activity_date, count}})
ItemDone(item, msg, c) ==
    [success |-> TRUE, message |-> msg, tracker_type |-> item.tracker_type,
     activity_date |-> FormatDate(item.activity_date), count |-> c]

\* the loop from item i up to its next awaited query: items with a missing
\* field are reported and skipped; an activity_date that does not parse
\* throws out of the loop; past the last item the loop ends
RECURSIVE SyncScan(_, _, _)
SyncScan(items, i, results) ==
    IF i > Len(items)
    THEN [kind |-> "end", i |-> i, results |-> results]
    ELSE IF FalsyStr(items[i], "tracker_type") \/ FalsyStr(items[i], "activity_date")
    THEN SyncScan(items, i + 1,
                  Append(results, ItemFailed(items[i], "Missing required fields")))
    ELSE IF FormatDate(items[i].activity_date) = ""
    THEN [kind |-> "throw", i |-> i, results |-> results]
    ELSE [kind |-> "query", i |-> i, results |-> results]

\* the handler, its locals l, runs on from item i: to the existence check
\* of the next item that needs one, to the 200 response that carries the
\* results, or to the outer catch (500)
SyncContinue(r, l, i, results) ==
    LET sc == SyncScan(req[r].body.activities, i, results)
    IN  CASE sc.kind = "end" ->
                ReplyWith(r, req[r], l.n, 200, l.nq, [results |-> sc.results])
          [] sc.kind = "throw" ->
                ReplyWith(r, req[r], l.n, 500, l.nq, [results |-> <<>>])
          [] OTHER ->
                Await(r, req[r], "sync_select",
                      [n |-> l.n, nq |-> l.nq, user_name |-> l.user_name,
                       email |-> l.email, i |-> sc.i, results |-> sc.results])

\* the user lookup returns; the body is validated; the loop starts.
\* F: the outcomes a query can have (TRUE: it succeeds, FALSE: it rejects)
SyncUser(r, F) ==
    /\ pc[r] = "user_select"
    /\ req[r].ep = "sync"
    /\ UNCHANGED calls
    /\ UnchangedDb
    /\ \E ok \in F :
          LET b == req[r].body
              found == UserById(req[r].auth.id)
              nq == loc[r].nq + 1
          IN  IF ~ok
              THEN ReplyWith(r, req[r], loc[r].n, 500, nq, [results |-> <<>>])
              ELSE IF found = {}
              THEN ReplyWith(r, req[r], loc[r].n, 404, nq, [results |-> <<>>])
              ELSE IF ~Has(b, "activities") \/ b.activities = <<>>
              THEN ReplyWith(r, req[r], loc[r].n, 400, nq, [results |-> <<>>])
              ELSE \E u \in found :
                       SyncContinue(r, [n |-> loc[r].n, nq |-> nq, user_name |-> u.name,
                                        email |-> u.email], 1, <<>>)

\* const existingRecord = await query('SELECT id, count FROM mind_tools_activity ...')
\* and the branch on it: no write is needed (the item is reported unchanged
\* and the loop runs on), or the UPDATE or the INSERT is issued
SyncSelect(r, F) ==
    /\ pc[r] = "sync_select"
    /\ UNCHANGED calls
    /\ UnchangedDb
    /\ \E ok \in F :
          LET item == req[r].body.activities[loc[r].i]
              l == [loc[r] EXCEPT !.nq = @ + 1]
          IN  IF ~ok
              THEN SyncContinue(r, l, loc[r].i + 1,
                                Append(loc[r].results, ItemFailed(item, "query failed")))
              ELSE \E e \in FirstRows(CounterRows(mind_tools_activity, loc[r].email,
                                                  item.tracker_type,
                                                  FormatDate(item.activity_date))) :
                       IF e.id # 0 /\ ~NeedsUpdate(e.count, CountOr1(item))
                       THEN SyncContinue(r, l, loc[r].i + 1,
                                Append(loc[r].results,
                                       ItemDone(item, "No update needed (server has higher count)",
                                                e.count)))
                       ELSE Await(r, req[r], "sync_write", l @@ [existing |-> e.id])

\* await query('UPDATE mind_tools_activity SET count = ? WHERE id = ?') or
\* await query('INSERT INTO mind_tools_activity ...'), the result pushed, and
\* the loop running on
SyncWrite(r, F) ==
    /\ pc[r] = "sync_write"
    /\ UNCHANGED <<held, boot, user, task_rows, calendar_2025_tasks, calls>>
    /\ \E ok \in F :
          LET item == req[r].body.activities[loc[r].i]
              c == CountOr1(item)
              e == loc[r].existing
              l == [n |-> loc[r].n, nq |-> loc[r].nq + 1,
                    user_name |-> loc[r].user_name, email |-> loc[r].email]
              id == nextId["mind_tools_activity"]
          IN  IF ~ok
              THEN /\ UNCHANGED <<mind_tools_activity, nextId>>
                   /\ SyncContinue(r, l, loc[r].i + 1,
                                   Append(loc[r].results, ItemFailed(item, "query failed")))
              ELSE IF e # 0
              THEN /\ mind_tools_activity' = SetCount(mind_tools_activity, e, c)
                   /\ UNCHANGED nextId
                   /\ SyncContinue(r, l, loc[r].i + 1,
                                   Append(loc[r].results, ItemDone(item, "Activity updated", c)))
              ELSE /\ mind_tools_activity' =
                          InsertCounter(mind_tools_activity, id, loc[r].user_name,
                                        loc[r].email, item.tracker_type,
                                        FormatDate(item.activity_date), c)
                   /\ nextId' = [nextId EXCEPT !["mind_tools_activity"] = @ + 1]
                   /\ SyncContinue(r, l, loc[r].i + 1,
                                   Append(loc[r].results, ItemDone(item, "Activity recorded", c)))

(***************************************************************************)
(* POST /api/mind-tools/activity                                           *)
(***************************************************************************)
\* the day the counter is kept for: activity_date when sent, else today
ActivityDay(b) ==
    IF FalsyStr(b, "activity_date") THEN Today ELSE FormatDate(b.activity_date)

\* variant: the counter row is inserted before tracker_type is validated
ActivityUserInsertsFirst(r, F) ==
    /\ pc[r] = "user_select"
    /\ req[r].ep = "activity"
    /\ UNCHANGED <<held, boot, user, task_rows, calendar_2025_tasks, calls>>
    /\ \E ok \in F :
          LET b == req[r].body
              found == UserById(req[r].auth.id)
              nq == loc[r].nq + 1
          IN  IF ~ok \/ found = {} \/ FalsyStr(b, "tracker_type")
              THEN /\ UNCHANGED <<mind_tools_activity, nextId>>
                   /\ ReplyWith(r, req[r], loc[r].n,
                                IF ~ok THEN 500 ELSE IF found = {} THEN 404 ELSE 400,
                                nq, [count |-> 0])
              ELSE IF ActivityDay(b) = ""
              THEN /\ UNCHANGED <<mind_tools_activity, nextId>>
                   /\ ReplyWith(r, req[r], loc[r].n, 500, nq, [count |-> 0])
              ELSE IF b.tracker_type \notin validTrackers
              THEN /\ \E u \in found :
                         mind_tools_activity' =
                             InsertCounter(mind_tools_activity,
                                           nextId["mind_tools_activity"], u.name, u.email,
                                           b.tracker_type, ActivityDay(b), 1)
                   /\ nextId' = [nextId EXCEPT !["mind_tools_activity"] = @ + 1]
                   /\ ReplyWith(r, req[r], loc[r].n, 400, nq, [count |-> 0])
              ELSE /\ UNCHANGED <<mind_tools_activity, nextId>>
                   /\ \E u \in found :
                         Await(r, req[r], "act_select",
                               [n |-> loc[r].n, nq |-> nq, user_name |-> u.name,
                                email |-> u.email])

\* the user lookup returns; tracker_type and the date are validated
ActivityUser(r, F) ==
    /\ pc[r] = "user_select"
    /\ req[r].ep = "activity"
    /\ UNCHANGED calls
    /\ UnchangedDb
    /\ \E ok \in F :
          LET b == req[r].body
              found == UserById(req[r].auth.id)
              nq == loc[r].nq + 1
          IN  IF ~ok
              THEN ReplyWith(r, req[r], loc[r].n, 500, nq, [count |-> 0])
              ELSE IF found = {}
              THEN ReplyWith(r, req[r], loc[r].n, 404, nq, [count |-> 0])
              ELSE IF FalsyStr(b, "tracker_type")
              THEN ReplyWith(r, req[r], loc[r].n, 400, nq, [count |-> 0])
              ELSE IF ActivityDay(b) = ""
              THEN ReplyWith(r, req[r], loc[r].n, 500, nq, [count |-> 0])
              ELSE IF b.tracker_type \notin validTrackers
              THEN ReplyWith(r, req[r], loc[r].n, 400, nq, [count |-> 0])
              ELSE \E u \in found :
                       Await(r, req[r], "act_select",
                             [n |-> loc[r].n, nq |-> nq, user_name |-> u.name,
                              email |-> u.email])

\* const existingRecord = await query('SELECT id, count FROM mind_tools_activity ...')
ActivitySelect(r, F) ==
    /\ pc[r] = "act_select"
    /\ UNCHANGED calls
    /\ UnchangedDb
    /\ \E ok \in F :
          IF ~ok
          THEN ReplyWith(r, req[r], loc[r].n, 500, loc[r].nq + 1, [count |-> 0])
          ELSE \E e \in FirstRows(CounterRows(mind_tools_activity, loc[r].email,
                                              req[r].body.tracker_type,
                                              ActivityDay(req[r].body))) :
                   Await(r, req[r], "act_write",
                         [loc[r] EXCEPT !.nq = @ + 1] @@
                         [existing |-> e.id, count |-> e.count])

\* UPDATE ... SET count = existingRecord[0].count + 1, or INSERT ... count 1
ActivityWrite(r, F) ==
    /\ pc[r] = "act_write"
    /\ UNCHANGED <<held, boot, user, task_rows, calendar_2025_tasks, calls>>
    /\ \E ok \in F :
          LET b == req[r].body
              nc == newCount(loc[r].count)
              id == nextId["mind_tools_activity"]
          IN  IF ~ok
              THEN /\ UNCHANGED <<mind_tools_activity, nextId>>
                   /\ ReplyWith(r, req[r], loc[r].n, 500, loc[r].nq + 1, [count |-> 0])
              ELSE IF loc[r].existing # 0
              THEN /\ mind_tools_activity' =
                          SetCount(mind_tools_activity, loc[r].existing, nc)
                   /\ UNCHANGED nextId
                   /\ ReplyWith(r, req[r], loc[r].n, 200, loc[r].nq + 1,
                                [count |-> nc])
              ELSE /\ mind_tools_activity' =
                          InsertCounter(mind_tools_activity, id, loc[r].user_name,
                                        loc[r].email, b.tracker_type, ActivityDay(b), 1)
                   /\ nextId' = [nextId EXCEPT !["mind_tools_activity"] = @ + 1]
                   /\ ReplyWith(r, req[r], loc[r].n, 201, loc[r].nq + 1, [count |-> 1])

(***************************************************************************)
(* Calendar colour codes.  A colour code is a text: a sequence of symbols, *)
(* the prefix 'selected-color-' being one symbol.                          *)
(***************************************************************************)
PrefixSym == "selected-color-"

DigitSeq == <<"0", "1", "2", "3", "4", "5", "6", "7", "8", "9">>

Digits == {DigitSeq[i] : i \in 1 .. Len(DigitSeq)}

\* the value a column holds when it is NULL, apart from every text
NullText == <<"NULL">>

\* color_code.startsWith('selected-color-')
startsWithPrefix(c) == Len(c) > 0 /\ c[1] = PrefixSym

\* `${task_type}` for an integer
RECURSIVE NatText(_)
NatText(n) ==
    IF n < 10 THEN <<DigitSeq[n + 1]>>
    ELSE NatText(n \div 10) \o <<DigitSeq[(n % 10) + 1]>>

NumText(n) == IF n < 0 THEN <<"-">> \o NatText(0 - n) ELSE NatText(n)

\* the longest run of digits of c from position i on
RECURSIVE DigitRun(_, _)
DigitRun(c, i) ==
    IF i > Len(c) \/ c[i] \notin Digits THEN <<>>
    ELSE <<c[i]>> \o DigitRun(c, i + 1)

\* color_code.match(/selected-color-(\d+)/)[1]: the digits after the first
\* prefix that digits follow, <<>> when the expression does not match
colorTypeMatch(c) ==
    LET at == {i \in 1 .. Len(c) - 1 : c[i] = PrefixSym /\ c[i + 1] \in Digits}
    IN  IF at = {} THEN <<>>
        ELSE DigitRun(c, (CHOOSE i \in at : \A j \in at : i <= j) + 1)

\* parseInt(digits, 10)
RECURSIVE parseInt(_)
parseInt(ds) ==
    IF ds = <<>> THEN 0
    ELSE 10 * parseInt(SubSeq(ds, 1, Len(ds) - 1)) +
         ((CHOOSE i \in 1 .. Len(DigitSeq) : DigitSeq[i] = ds[Len(ds)]) - 1)

\* variant: a colour code without the prefix is returned as stored
normalizeColorKeep(c, t) == c

\* the colour code a read returns for a stored pair
normalizeColor(c, t) ==
    IF c = NullText \/ c = <<>> \/ ~startsWithPrefix(c)
    THEN <<PrefixSym>> \o NumText(t)
    ELSE c

\* variant: the colour code's number is added to the stored type
normalizeTypeAdd(c, t) ==
    IF startsWithPrefix(c) /\ colorTypeMatch(c) # <<>> /\ t # parseInt(colorTypeMatch(c))
    THEN t + parseInt(colorTypeMatch(c))
    ELSE t

\* the type a read returns for a normalized colour code and a stored type
normalizeType(c, t) ==
    IF startsWithPrefix(c) /\ colorTypeMatch(c) # <<>> /\ t # parseInt(colorTypeMatch(c))
    THEN parseInt(colorTypeMatch(c))
    ELSE t

\* results.map(task => ...): the task a read returns for a stored row
normalizeTask(task) ==
    LET c == normalizeColor(task.color_code, task.task_type)
    IN  [task EXCEPT !.color_code = c, !.task_type = normalizeType(c, task.task_type)]

(***************************************************************************)
(* GET /api/calendar/load and GET /calendar2025/tasks.  Both run behind    *)
(* the pseudo-token gate; the second registration of GET                   *)
(* /calendar2025/tasks is never reached, the first one answers every       *)
(* request.  The body of a GET request holds its query parameters.         *)
(***************************************************************************)
CalendarLoadEndpoints == {"calendar_load", "calendar2025_load"}

\* req.query.theme || 'animal' on the compatibility path
LoadTheme(q) ==
    IF q.ep = "calendar2025_load" /\ FalsyStr(q.body, "theme") THEN "animal"
    ELSE q.body.theme

CalendarLoadRecv(r, Q, mode) ==
    /\ CanRecv(r, mode)
    /\ calls' = calls + 1
    /\ UnchangedDb
    /\ \E q \in Q :
          /\ q.ep \in CalendarLoadEndpoints
          /\ LET g == authenticateUserByToken(q.auth)
             IN  IF ~g.ok
                 THEN ReplyWith(r, q, calls + 1, 401, 0, [tasks |-> {}])
                 ELSE IF q.ep = "calendar_load" /\ FalsyStr(q.body, "theme")
                 THEN ReplyWith(r, q, calls + 1, 400, 0, [tasks |-> {}])
                 ELSE Await(r, q, "load_select",
                            [nq |-> 0, n |-> calls + 1, user_name |-> g.user_name,
                             email |-> g.email])

\* SELECT * FROM calendar_2025_tasks WHERE user_name = ? AND email = ? AND theme = ?
\* returns and the rows are normalized
CalendarLoadSelect(r, F) ==
    /\ pc[r] = "load_select"
    /\ UNCHANGED calls
    /\ UnchangedDb
    /\ \E ok \in F :
          LET rows == {x \in calendar_2025_tasks :
                          /\ x.user_name = loc[r].user_name
                          /\ x.email = loc[r].email
                          /\ x.theme = LoadTheme(req[r])}
          IN  IF ~ok
              THEN ReplyWith(r, req[r], loc[r].n, 500, loc[r].nq + 1, [tasks |-> {}])
              ELSE ReplyWith(r, req[r], loc[r].n, 200, loc[r].nq + 1,
                             [tasks |-> {normalizeTask(x) : x \in rows}])

(***************************************************************************)
(* POST /calendar2025/tasks, the compatibility-path save: no gate, the     *)
(* identity is taken from the body.                                        *)
(***************************************************************************)
\* let normalizedColorCode = color_code; if (!color_code.startsWith(...)) ...
normalizedColorCode(color_code, task_type) ==
    IF ~startsWithPrefix(color_code) THEN <<PrefixSym>> \o NumText(task_type)
    ELSE color_code

CompatSaveRecv(r, Q, mode) ==
    /\ CanRecv(r, mode)
    /\ calls' = calls + 1
    /\ UnchangedDb
    /\ \E q \in Q :
          /\ q.ep = "calendar2025_save"
          /\ LET b == q.body
             IN  IF \/ FalsyText(b, "user_name") \/ FalsyText(b, "email")
                    \/ FalsyStr(b, "task_date") \/ FalsyNum(b, "task_type")
                    \/ FalsyStr(b, "task_description") \/ FalsyText(b, "color_code")
                    \/ FalsyStr(b, "theme")
                 THEN Reply(r, q, calls + 1, 400, 0, 0)
                 ELSE Await(r, q, "compat_select", [nq |-> 0, n |-> calls + 1])

CompatSaveSelect(r) ==
    /\ pc[r] = "compat_select"
    /\ LET b == req[r].body
       IN  \E e \in FirstIds(CalendarMatches(b.user_name, b.email, b.task_date, b.theme)) :
               Await(r, req[r], "compat_write",
                     [loc[r] EXCEPT !.nq = @ + 1] @@ [existing |-> e])
    /\ UNCHANGED calls
    /\ UnchangedDb

\* UPDATE calendar_2025_tasks SET task_type = ?, task_description = ?,
\*   color_code = ?, updated_at = NOW() WHERE id = ?
\* or INSERT INTO calendar_2025_tasks (...) VALUES (...)
CompatSaveWrite(r, T) ==
    /\ pc[r] = "compat_write"
    /\ LET b == req[r].body
           e == loc[r].existing
           id == nextId["calendar_2025_tasks"]
           c == normalizedColorCode(b.color_code, b.task_type)
       IN  \E now \in Now(T) :
               IF e # 0
               THEN /\ calendar_2025_tasks' =
                           {IF x.id = e
                            THEN [x EXCEPT !.task_type = b.task_type,
                                           !.task_description = b.task_description,
                                           !.color_code = c, !.updated_at = now]
                            ELSE x : x \in calendar_2025_tasks}
                    /\ UNCHANGED nextId
                    /\ Reply(r, req[r], loc[r].n, 200, e, loc[r].nq + 1)
               ELSE /\ calendar_2025_tasks' = calendar_2025_tasks \cup
                           {[id |-> id, user_name |-> b.user_name, email |-> b.email,
                             task_date |-> b.task_date, task_type |-> b.task_type,
                             task_description |-> b.task_description,
                             color_code |-> c, theme |-> b.theme, updated_at |-> now]}
                    /\ nextId' = [nextId EXCEPT !["calendar_2025_tasks"] = @ + 1]
                    /\ Reply(r, req[r], loc[r].n, 201, id, loc[r].nq + 1)
    /\ UNCHANGED <<held, boot, user, task_rows, mind_tools_activity, calls>>

(***************************************************************************)
(* The connection pool (config/database.js).                               *)
(***************************************************************************)
connectionLimit == 5

\* pool.getConnection can hand out a connection
PoolFree == held < connectionLimit

\* query(sql, params) is pool.query: the pool takes one of its connections
\* for the statement and returns it when the statement is done.  With
\* waitForConnections: true and queueLimit: 0 the statement waits, without
\* a limit, until the pool has a connection for it.
QueryRuns == PoolFree

(***************************************************************************)
(* POST /auth/register, POST /auth/login, POST /auth/google.  Each takes a *)
(* pool connection with getConnection, runs its queries through            *)
(* pool.query, and releases the connection in its finally block.           *)
(***************************************************************************)
AuthEndpoints == {"register", "login", "google"}

\* bcrypt.hash(password, 10) and bcrypt.compare(password, hash)
bcryptHash(password) == <<"bcrypt", password>>

bcryptCompare(password, h) == h = bcryptHash(password)

\* a password_hash column that is NULL
NullHash == <<>>

\* variant: the payload is signed without the user id
jwtSignNoId(id, email) == [id |-> 0, email |-> email]

\* jwt.sign({id, email}, JWT_SECRET, {expiresIn: '7d'})
jwtSign(id, email) == [id |-> id, email |-> email]

NoUserData == [id |-> 0]
NoToken == [id |-> 0]

\* result.insertId of an INSERT INTO user (no row of user is ever deleted)
UserInsertId ==
    IF user = {} THEN 1
    ELSE (CHOOSE i \in {u.id : u \in user} : \A u \in user : u.id <= i) + 1

\* the columns of a user row the responses carry
UserData(u) == [id |-> u.id, name |-> u.name, email |-> u.email]

\* the status of the success response of an endpoint
SuccessStatus(ep) == IF ep = "register" THEN 201 ELSE 200

\* variant: the connection is released only when the handler succeeded
FinallyOnSuccess(r, status) ==
    held' = IF loc[r].conn /\ status < 400 THEN held - 1 ELSE held

\* finally { if (connection) connection.release(); }
Finally(r, status) == held' = IF loc[r].conn THEN held - 1 ELSE held

\* the handler answers and leaves through its finally block
AuthReply(r, status, data) ==
    /\ ReplyWith(r, req[r], loc[r].n, status, loc[r].nq, data)
    /\ Finally(r, status)

AuthFail(r, status) ==
    AuthReply(r, status, [user |-> NoUserData, token |-> NoToken, mail |-> "none"])

AuthSuccess(r, l, mail) ==
    AuthReply(r, SuccessStatus(req[r].ep),
              [user |-> l.userData, token |-> l.token, mail |-> mail])

\* the handler up to `connection = await getConnection()`
AuthRecv(r, Q, mode) ==
    /\ CanRecv(r, mode)
    /\ calls' = calls + 1
    /\ UnchangedDb
    /\ \E q \in Q :
          /\ q.ep \in AuthEndpoints
          /\ IF /\ q.ep = "register"
                /\ \/ FalsyText(q.body, "username") \/ FalsyText(q.body, "email")
                   \/ FalsyStr(q.body, "password")
             THEN ReplyWith(r, q, calls + 1, 400, 0,
                            [user |-> NoUserData, token |-> NoToken, mail |-> "none"])
             ELSE Await(r, q, "get_conn", [nq |-> 0, n |-> calls + 1, conn |-> FALSE])

\* getConnection resolves with a connection of the pool, or rejects
AuthGetConnection(r, F) ==
    /\ pc[r] = "get_conn"
    /\ UNCHANGED <<boot, user, task_rows, calendar_2025_tasks, mind_tools_activity,
                   nextId, calls>>
    /\ \E ok \in F :
          IF ~ok
          THEN AuthFail(r, 500)
          ELSE /\ PoolFree
               /\ held' = held + 1
               /\ Await(r, req[r],
                        CASE req[r].ep = "register" -> "reg_select"
                          [] req[r].ep = "login" -> "login_select"
                          [] OTHER -> "google_select",
                        [loc[r] EXCEPT !.conn = TRUE])

\* the rows SELECT * FROM user WHERE email = ? returns; a body without email
\* binds NULL, which equals no email
UserByEmail(b) == IF Has(b, "email") THEN {u \in user : u.email = b.email} ELSE {}

\* variant: a user table without its unique keys
DuplicateEntryNever(id, email, uid) == FALSE

\* email VARCHAR(255) UNIQUE NOT NULL, firebase_uid VARCHAR(255) UNIQUE: a
\* write that would give row id an email or a (non-NULL) firebase_uid
\* another row has is refused with ER_DUP_ENTRY
DuplicateEntry(id, email, uid) ==
    \E u \in user :
        u.id # id /\ (u.email = email \/ (uid # "" /\ u.firebase_uid = uid))

\* register: the email lookup returns; the password is hashed
RegisterSelect(r, F) ==
    /\ pc[r] = "reg_select"
    /\ QueryRuns
    /\ UNCHANGED <<boot, user, task_rows, calendar_2025_tasks, mind_tools_activity,
                   nextId, calls>>
    /\ \E ok \in F :
          LET l == [loc[r] EXCEPT !.nq = @ + 1]
          IN  IF ~ok THEN AuthFail(r, 500)
              ELSE IF UserByEmail(req[r].body) # {}
              THEN AuthFail(r, 400)
              ELSE /\ UNCHANGED held
                   /\ Await(r, req[r], "reg_insert", l)

\* register: INSERT INTO user (name, email, password_hash, welcome_email_sent)
RegisterInsert(r, F) ==
    /\ pc[r] = "reg_insert"
    /\ QueryRuns
    /\ UNCHANGED <<boot, task_rows, calendar_2025_tasks, mind_tools_activity,
                   nextId, calls>>
    /\ \E ok \in F :
          LET b == req[r].body
              id == UserInsertId
          IN  IF ~ok \/ DuplicateEntry(id, b.email, "")
              THEN UNCHANGED user /\ AuthFail(r, 500)
              ELSE /\ user' = user \cup
                          {[id |-> id, name |-> b.username, email |-> b.email,
                            password_hash |-> bcryptHash(b.password),
                            firebase_uid |-> "", welcome_email_sent |-> 0]}
                   /\ UNCHANGED held
                   /\ Await(r, req[r], "auth_userdata",
                            [loc[r] EXCEPT !.nq = @ + 1] @@
                            [userId |-> id, isNewUser |-> TRUE,
                             token |-> jwtSign(id, b.email)])

\* login: the email lookup returns, the password is compared, and the
\* welcome email is sent when the row says it has not been
LoginSelect(r, F) ==
    /\ pc[r] = "login_select"
    /\ QueryRuns
    /\ UNCHANGED <<boot, user, task_rows, calendar_2025_tasks, mind_tools_activity,
                   nextId, calls>>
    /\ \E ok \in F :
          LET b == req[r].body
          IN  IF ~ok THEN AuthFail(r, 500)
              ELSE IF UserByEmail(b) = {} THEN AuthFail(r, 401)
              ELSE \E u \in UserByEmail(b) :
                      IF ~Has(b, "password") \/ u.password_hash = NullHash
                      THEN AuthFail(r, 500)
                      ELSE IF ~bcryptCompare(b.password, u.password_hash)
                      THEN AuthFail(r, 401)
                      ELSE LET l == [loc[r] EXCEPT !.nq = @ + 1] @@
                                    [userId |-> u.id, isNewUser |-> FALSE,
                                     userData |-> UserData(u),
                                     token |-> jwtSign(u.id, b.email)]
                           IN  IF u.welcome_email_sent = 0
                               THEN UNCHANGED held /\ Await(r, req[r], "auth_email", l)
                               ELSE /\ ReplyWith(r, req[r], l.n, 200, l.nq,
                                                 [user |-> l.userData, token |-> l.token,
                                                  mail |-> "none"])
                                    /\ Finally(r, 200)

\* google: the email lookup returns
GoogleSelect(r, F) ==
    /\ pc[r] = "google_select"
    /\ QueryRuns
    /\ UNCHANGED <<boot, user, task_rows, calendar_2025_tasks, mind_tools_activity,
                   nextId, calls>>
    /\ \E ok \in F :
          IF ~ok THEN AuthFail(r, 500)
          ELSE /\ UNCHANGED held
               /\ \E e \in FirstIds(UserByEmail(req[r].body)) :
                     Await(r, req[r], "google_write",
                           [loc[r] EXCEPT !.nq = @ + 1] @@ [existing |-> e])

\* password && (storePassword === 'true' || storePassword === true)
StoresPassword(b) == ~FalsyStr(b, "password") /\ ~FalsyBool(b, "storePassword")

\* google: UPDATE user SET name = ?, firebase_uid = ? [, password_hash = ?]
\* WHERE id = ?, or INSERT INTO user (...)
GoogleWrite(r, F) ==
    /\ pc[r] = "google_write"
    /\ QueryRuns
    /\ UNCHANGED <<boot, task_rows, calendar_2025_tasks, mind_tools_activity,
                   nextId, calls>>
    /\ \E ok \in F :
          LET b == req[r].body
              e == loc[r].existing
              id == IF e # 0 THEN e ELSE UserInsertId
              h == IF StoresPassword(b) THEN bcryptHash(b.password) ELSE NullHash
          IN  IF ~ok \/ DuplicateEntry(id, b.email, b.firebaseUid)
              THEN UNCHANGED user /\ AuthFail(r, 500)
              ELSE /\ user' =
                          IF e # 0
                          THEN {IF u.id = e
                                THEN [u EXCEPT !.name = b.displayName,
                                               !.firebase_uid = b.firebaseUid,
                                               !.password_hash =
                                                   IF h # NullHash THEN h ELSE @]
                                ELSE u : u \in user}
                          ELSE user \cup
                               {[id |-> id, name |-> b.displayName, email |-> b.email,
                                 password_hash |-> h, firebase_uid |-> b.firebaseUid,
                                 welcome_email_sent |-> 0]}
                   /\ UNCHANGED held
                   /\ Await(r, req[r], "auth_userdata",
                            [n |-> loc[r].n, nq |-> loc[r].nq + 1, conn |-> loc[r].conn,
                             userId |-> id, isNewUser |-> (e = 0),
                             token |-> jwtSign(id, b.email)])

\* register, google: SELECT id, name, email, ... FROM user WHERE id = ? returns
AuthUserData(r, F) ==
    /\ pc[r] = "auth_userdata"
    /\ QueryRuns
    /\ UNCHANGED <<boot, user, task_rows, calendar_2025_tasks, mind_tools_activity,
                   nextId, calls>>
    /\ \E ok \in F :
          IF ~ok \/ UserById(loc[r].userId) = {}
          THEN AuthFail(r, 500)
          ELSE \E u \in UserById(loc[r].userId) :
                  LET l == [loc[r] EXCEPT !.nq = @ + 1] @@ [userData |-> UserData(u)]
                  IN  IF req[r].ep = "register" \/ l.isNewUser \/ u.welcome_email_sent = 0
                      THEN UNCHANGED held /\ Await(r, req[r], "auth_email", l)
                      ELSE /\ ReplyWith(r, req[r], l.n, 200, l.nq,
                                        [user |-> l.userData, token |-> l.token,
                                         mail |-> "none"])
                           /\ Finally(r, 200)

\* variant: an email that cannot be sent fails the request
AuthEmailAborts(r, M) ==
    /\ pc[r] = "auth_email"
    /\ UNCHANGED <<boot, user, task_rows, calendar_2025_tasks, mind_tools_activity,
                   nextId, calls>>
    /\ \E sent \in M :
          IF sent
          THEN UNCHANGED held /\ Await(r, req[r], "auth_flag", loc[r])
          ELSE AuthFail(r, 500)

\* await sendWelcomeEmail(email, name) resolves or throws; M: the outcomes
\* the send can have.  A throw is caught and the handler answers
AuthEmail(r, M) ==
    /\ pc[r] = "auth_email"
    /\ UNCHANGED <<boot, user, task_rows, calendar_2025_tasks, mind_tools_activity,
                   nextId, calls>>
    /\ \E sent \in M :
          IF sent
          THEN UNCHANGED held /\ Await(r, req[r], "auth_flag", loc[r])
          ELSE AuthSuccess(r, loc[r], "threw")

\* UPDATE user SET welcome_email_sent = 1 WHERE id = ? returns or rejects (a
\* rejection is caught with the email's), and the handler answers
AuthFlag(r, F) ==
    /\ pc[r] = "auth_flag"
    /\ QueryRuns
    /\ UNCHANGED <<boot, task_rows, calendar_2025_tasks, mind_tools_activity,
                   nextId, calls>>
    /\ \E ok \in F :
          /\ user' = IF ok
                     THEN {IF u.id = loc[r].userId
                           THEN [u EXCEPT !.welcome_email_sent = 1] ELSE u : u \in user}
                     ELSE user
          /\ AuthSuccess(r, [loc[r] EXCEPT !.nq = @ + 1], "sent")

(***************************************************************************)
(* testConnection(retries), called once when config/database.js loads.     *)
(***************************************************************************)
\* variant: the connection of the successful attempt is kept
releaseNothing(h) == h

\* connection.release()
release(h) == h - 1

\* variant: a failed attempt is retried whatever attemptsLeft says
MayRetryAlways(attemptsLeft) == TRUE

\* if (attemptsLeft > 0)
MayRetry(attemptsLeft) == attemptsLeft > 0

\* testConnection(retries): tryConnect(retries) is entered
BootStart(retries) ==
    [state |-> "trying", retries |-> retries, attemptsLeft |-> retries, attempts |-> 0,
     failed |-> 0, err |-> 0, rejectedWith |-> 0]

\* the callback of pool.getConnection runs: with an error (a retry is
\* scheduled or the promise is rejected with that error), or with a
\* connection, which is released before the promise is resolved.  The error
\* of the n-th attempt is written n.
TryConnect(F) ==
    /\ boot.state = "trying"
    /\ UNCHANGED <<user, task_rows, calendar_2025_tasks, mind_tools_activity, nextId,
                   pc, req, loc, resp, calls>>
    /\ \E ok \in F :
          IF ~ok
          THEN /\ UNCHANGED held
               /\ boot' = [boot EXCEPT
                              !.attempts = @ + 1,
                              !.failed = @ + 1,
                              !.err = boot.attempts + 1,
                              !.state = IF MayRetry(boot.attemptsLeft)
                                        THEN "waiting" ELSE "rejected",
                              !.rejectedWith = IF MayRetry(boot.attemptsLeft)
                                               THEN 0 ELSE boot.attempts + 1]
          ELSE /\ PoolFree
               /\ held' = release(held + 1)
               /\ boot' = [boot EXCEPT !.attempts = @ + 1, !.state = "resolved"]

\* setTimeout(() => tryConnect(attemptsLeft - 1), 5000) fires
RetryTimer ==
    /\ boot.state = "waiting"
    /\ boot' = [boot EXCEPT !.state = "trying", !.attemptsLeft = @ - 1]
    /\ UNCHANGED <<held, user, task_rows, calendar_2025_tasks, mind_tools_activity,
                   nextId, pc, req, loc, resp, calls>>

(***************************************************************************)
(* Initial state: the schema is installed, the tables are empty, and the  *)
(* user table holds the registered users.                                  *)
(***************************************************************************)
NameA == <<"a">>
NameB == <<"b">>
MailX == <<"x">>
MailY == <<"y">>

Users == {[id |-> 1, name |-> NameA, email |-> MailX],
          [id |-> 2, name |-> NameB, email |-> MailY]}

Init ==
    /\ user = Users
    /\ task_rows = [t \in TaskTables |-> {}]
    /\ calendar_2025_tasks = {}
    /\ mind_tools_activity = {}
    /\ nextId = [t \in AllTables |-> 1]
    /\ pc = [r \in Req |-> "idle"]
    /\ req = [r \in Req |-> NoReq]
    /\ loc = [r \in Req |-> NoLoc]
    /\ resp = [r \in Req |-> NoResp]
    /\ calls = 0
    /\ held = 0
    /\ boot = NoBoot

(***************************************************************************)
(* Requests.                                                               *)
(***************************************************************************)
\* Authorization: Bearer <name>:<email>
PseudoToken(name, email) == <<BearerSym>> \o name \o <<":">> \o email

\* Authorization: Bearer <jwt> for a token signed for user id
Jwt(id) == [scheme |-> "Bearer", sig |-> "ok", expired |-> FALSE, id |-> id]

Cards == {"c1", "c2"}
Blobs == {"t1", "t2"}

\* well-formed saves of user a
SaveReqs ==
    {[ep |-> "tasks_save", auth |-> PseudoToken(NameA, MailX),
      body |-> [user_name |-> NameA, email |-> MailX, card_id |-> c, tasks |-> t,
                theme |-> "th", table |-> tb]] :
        c \in Cards, t \in Blobs, tb \in {"vision_board_tasks", "weekly_planner_tasks"}}
    \cup
    {[ep |-> e, auth |-> Jwt(1), body |-> [card_id |-> c, tasks |-> t, theme |-> "th"]] :
        e \in {"annual_save", "weekly_save"}, c \in Cards, t \in Blobs}
    \cup
    {[ep |-> "calendar_save", auth |-> PseudoToken(NameA, MailX),
      body |-> [user_name |-> NameA, email |-> MailX, task_date |-> "d1",
                task_type |-> 1, task_description |-> d,
                color_code |-> "selected-color-1", theme |-> "th"]] :
        d \in {"x1", "x2"}}
    \cup
    {[ep |-> "calendar_save", auth |-> PseudoToken(NameA, MailX),
      body |-> [user_name |-> NameA, email |-> MailX, id |-> 1, task_date |-> "d2"]],
     [ep |-> "calendar_save", auth |-> PseudoToken(NameA, MailX),
      body |-> [user_name |-> NameA, email |-> MailX, id |-> 1, delete |-> TRUE]]}

(***************************************************************************)
(* Spec: saves of POST /api/tasks/save and POST /api/calendar/save in     *)
(* flight together, their queries interleaved.                             *)
(***************************************************************************)
\* the saves in flight together: one natural key per table
ConcReqs ==
    {q \in SaveReqs :
        \/ /\ q.ep = "tasks_save"
           /\ q.body.card_id = "c1"
           /\ q.body.table = "vision_board_tasks"
        \/ /\ q.ep = "calendar_save"
           /\ Has(q.body, "task_description") => q.body.task_description = "x1"}

Next ==
    \E r \in Req :
        \/ TasksSaveRecv(r, ConcReqs, "conc")
        \/ TasksSaveSelect(r)
        \/ TasksSaveWrite(r)
        \/ CalendarSaveRecv(r, ConcReqs, "conc")
        \/ CalendarSaveDelete(r)
        \/ CalendarSaveUpdate(r, {0})
        \/ CalendarSaveSelect(r)
        \/ CalendarSaveWrite(r, {0})

Spec == Init /\ [][Next]_vars

(***************************************************************************)
(* SpecSeq: the task-collection saves executed one after another.          *)
(***************************************************************************)
SeqReqs == {q \in SaveReqs : q.ep \in {"tasks_save", "annual_save", "weekly_save"}}

NextSeq ==
    \E r \in Req :
        \/ TasksSaveRecv(r, SeqReqs, "serial")
        \/ TasksSaveSelect(r)
        \/ TasksSaveWrite(r)
        \/ JwtRecv(r, SeqReqs, "serial")
        \/ JwtSaveUser(r)
        \/ JwtSaveSelect(r)
        \/ JwtSaveWrite(r)

SpecSeq == Init /\ [][NextSeq]_vars

(***************************************************************************)
(* SpecGate: POST /api/tasks/save and POST /api/calendar/save over every  *)
(* shape of credential and payload: one request against a store that is  *)
(* empty or already holds rows of the requesting user.                     *)
(***************************************************************************)
\* credentials: none, user a, user b, a token without a colon
GateAuths == {<<>>, PseudoToken(NameA, MailX), PseudoToken(NameB, MailY),
              <<BearerSym>> \o NameA}

TaskFieldNames == {"user_name", "email", "card_id", "tasks", "theme", "table"}

\* every subset of the fields, over both identities and over permitted,
\* foreign and empty table names
GateTaskBodies ==
    {Fields(full, S) :
        full \in [user_name : {NameA, NameB}, email : {MailX, MailY},
                  card_id : {"c1"}, tasks : {"t1"}, theme : {"th"},
                  table : {"vision_board_tasks", "weekly_planner_tasks",
                           "annual_calendar_tasks", "user", ""}],
        S \in SUBSET TaskFieldNames}

CalendarFieldNames == {"user_name", "email", "id", "delete", "task_date", "task_type",
                       "task_description", "color_code", "theme"}

GateCalendarBodies ==
    {Fields(full, S) :
        full \in [user_name : {NameA, NameB}, email : {MailX, MailY}, id : {1},
                  delete : {TRUE}, task_date : {"d1"}, task_type : {1},
                  task_description : {"x1"}, color_code : {"selected-color-1"},
                  theme : {"th"}],
        S \in SUBSET CalendarFieldNames}

GateReqs ==
    {[ep |-> "tasks_save", auth |-> a, body |-> b] : a \in GateAuths, b \in GateTaskBodies}
    \cup
    {[ep |-> "calendar_save", auth |-> a, body |-> b] :
        a \in GateAuths, b \in GateCalendarBodies}

\* the rows earlier saves of user a have left in the tables
StoredTaskRow == [id |-> 1, user_name |-> NameA, email |-> MailX, card_id |-> "c1",
                  tasks |-> "t0", theme |-> "th"]

StoredCalendarRow == [id |-> 1, user_name |-> NameA, email |-> MailX, task_date |-> "d1",
                      task_type |-> 2, task_description |-> "x0",
                      color_code |-> "selected-color-2", theme |-> "th",
                      updated_at |-> 0]

\* the store is empty, or holds a row of user a in each table a save writes
InitGate ==
    /\ user = Users
    /\ \E full \in BOOLEAN :
          /\ task_rows = [t \in TaskTables |-> IF full THEN {StoredTaskRow} ELSE {}]
          /\ calendar_2025_tasks = IF full THEN {StoredCalendarRow} ELSE {}
          /\ nextId = [t \in AllTables |->
                          IF full /\ t # "mind_tools_activity" THEN 2 ELSE 1]
    /\ mind_tools_activity = {}
    /\ pc = [r \in Req |-> "idle"]
    /\ req = [r \in Req |-> NoReq]
    /\ loc = [r \in Req |-> NoLoc]
    /\ resp = [r \in Req |-> NoResp]
    /\ calls = 0
    /\ held = 0
    /\ boot = NoBoot

NextGate ==
    \E r \in Req :
        \/ TasksSaveRecv(r, GateReqs, "one")
        \/ TasksSaveSelect(r)
        \/ TasksSaveWrite(r)
        \/ CalendarSaveRecv(r, GateReqs, "one")
        \/ CalendarSaveDelete(r)
        \/ CalendarSaveUpdate(r, {0})
        \/ CalendarSaveSelect(r)
        \/ CalendarSaveWrite(r, {0})

SpecGate == InitGate /\ [][NextGate]_vars

(***************************************************************************)
(* SpecMind: POST /api/mind-tools/sync, one client sending batch after    *)
(* batch; the user lookup succeeds, every query of the loop is free to    *)
(* fail.                                                                   *)
(***************************************************************************)
D1 == "2025-01-01"

\* counter items of one tracker and day: the count omitted, zero, or positive
CountItems ==
    {[tracker_type |-> "break_things", activity_date |-> D1]} \cup
    {[tracker_type |-> "break_things", activity_date |-> D1, count |-> c] :
        c \in {0, 2, 3, 5}}

\* items with an unknown tracker, a missing field, a date that does not
\* parse, a date with a time of day
OddItems ==
    {[tracker_type |-> "foo", activity_date |-> D1, count |-> 2],
     [activity_date |-> D1, count |-> 2],
     [tracker_type |-> "break_things", count |-> 2],
     [tracker_type |-> "break_things", activity_date |-> "not-a-date", count |-> 2],
     [tracker_type |-> "break_things", activity_date |-> "2025-01-01T09:30:00Z",
      count |-> 3]}

RECURSIVE SeqsUpTo(_, _)
SeqsUpTo(S, n) ==
    IF n = 0 THEN {<<>>}
    ELSE LET shorter == SeqsUpTo(S, n - 1)
         IN  shorter \cup {Append(b, x) : b \in shorter, x \in S}

Batches ==
    (SeqsUpTo(CountItems, MaxBatch) \cup SeqsUpTo(CountItems \cup OddItems, 2)) \ {<<>>}

\* tokens the signed-token gate rejects, and a token of a deleted user
BadJwts == {[scheme |-> "none", sig |-> "ok", expired |-> FALSE, id |-> 1],
            [scheme |-> "Bearer", sig |-> "bad", expired |-> FALSE, id |-> 1],
            [scheme |-> "Bearer", sig |-> "ok", expired |-> TRUE, id |-> 1],
            Jwt(3)}

SyncReqs ==
    {[ep |-> "sync", auth |-> Jwt(1), body |-> [activities |-> b]] : b \in Batches}
    \cup
    {[ep |-> "sync", auth |-> Jwt(1), body |-> b] :
        b \in {[activities |-> <<>>], [other |-> 0]}}
    \cup
    {[ep |-> "sync", auth |-> a, body |-> [activities |-> <<x>>]] :
        a \in BadJwts, x \in {y \in CountItems : ~Has(y, "count")}}

NextMind ==
    \E r \in Req :
        \/ JwtRecv(r, SyncReqs, "client")
        \/ SyncUser(r, {TRUE})
        \/ SyncSelect(r, BOOLEAN)
        \/ SyncWrite(r, BOOLEAN)
        \/ Deliver(r)

SpecMind == Init /\ [][NextMind]_vars

(***************************************************************************)
(* SpecActivity: POST /api/mind-tools/activity, one client sending        *)
(* request after request, the database available.                          *)
(***************************************************************************)
ActivityReqs ==
    {[ep |-> "activity", auth |-> Jwt(1), body |-> b] :
        b \in {[tracker_type |-> "break_things"],
               [tracker_type |-> "break_things", activity_date |-> D1],
               [tracker_type |-> "break_things", activity_date |-> "2025-01-01T09:30:00Z"],
               [tracker_type |-> "break_things", activity_date |-> "not-a-date"],
               [tracker_type |-> "make_me_smile", activity_date |-> D1],
               [tracker_type |-> "foo", activity_date |-> D1],
               [activity_date |-> D1]}}
    \cup
    {[ep |-> "activity", auth |-> a, body |-> [tracker_type |-> "break_things"]] :
        a \in BadJwts \cup {Jwt(2)}}

NextActivity ==
    \E r \in Req :
        \/ JwtRecv(r, ActivityReqs, "client")
        \/ ActivityUser(r, {TRUE})
        \/ ActivitySelect(r, {TRUE})
        \/ ActivityWrite(r, {TRUE})
        \/ Deliver(r)

SpecActivity == Init /\ [][NextActivity]_vars

(***************************************************************************)
(* SpecColor: the calendar reads and the compatibility-path save over      *)
(* every shape of stored and incoming colour code, one client sending      *)
(* request after request.                                                  *)
(***************************************************************************)
\* colour codes: NULL, empty, without the prefix, the prefix alone, the
\* prefix and a number (one with a leading zero), the prefix and other
\* text, the prefix after other text
ColorCodes ==
    {NullText, <<>>, <<"b">>, <<PrefixSym>>, <<PrefixSym, "2">>, <<PrefixSym, "5">>,
     <<PrefixSym, "0", "5">>, <<PrefixSym, "1", "2">>, <<PrefixSym, "b">>,
     <<PrefixSym, "-", "1">>, <<"b", PrefixSym, "5">>}

TaskTypes == {0 - 1, 0, 2, 5, 12}

\* a row of user a for one day, as an earlier write left it
ColorRow(c, t) ==
    [id |-> 1, user_name |-> NameA, email |-> MailX, task_date |-> "d1",
     task_type |-> t, task_description |-> "x0", color_code |-> c, theme |-> "animal",
     updated_at |-> 0]

InitColor ==
    /\ user = Users
    /\ task_rows = [t \in TaskTables |-> {}]
    /\ \E c \in ColorCodes, t \in TaskTypes : calendar_2025_tasks = {ColorRow(c, t)}
    /\ mind_tools_activity = {}
    /\ nextId = [t \in AllTables |-> IF t = "calendar_2025_tasks" THEN 2 ELSE 1]
    /\ pc = [r \in Req |-> "idle"]
    /\ req = [r \in Req |-> NoReq]
    /\ loc = [r \in Req |-> NoLoc]
    /\ resp = [r \in Req |-> NoResp]
    /\ calls = 0
    /\ held = 0
    /\ boot = NoBoot

LoadReqs ==
    {[ep |-> e, auth |-> a, body |-> b] :
        e \in CalendarLoadEndpoints,
        a \in {PseudoToken(NameA, MailX), PseudoToken(NameB, MailY), <<>>},
        b \in {[theme |-> "animal"], [theme |-> "th"], [other |-> 0]}}

\* compatibility-path saves of user a: a day that has a row and a day that
\* has none, colour codes with and without the prefix, a field left out
CompatReqs ==
    {[ep |-> "calendar2025_save",
      body |-> [user_name |-> NameA, email |-> MailX, task_date |-> d, task_type |-> t,
                task_description |-> "x1", color_code |-> c, theme |-> "animal"]] :
        d \in {"d1", "d2"}, t \in {2, 5},
        c \in {<<"b">>, <<PrefixSym>>, <<PrefixSym, "5">>}}
    \cup
    {[ep |-> "calendar2025_save",
      body |-> [user_name |-> NameA, email |-> MailX, task_date |-> "d1", task_type |-> 0,
                task_description |-> "x1", color_code |-> <<"b">>, theme |-> "animal"]],
     [ep |-> "calendar2025_save",
      body |-> [user_name |-> NameA, email |-> MailX, task_date |-> "d1", task_type |-> 2,
                task_description |-> "x1", color_code |-> <<>>, theme |-> "animal"]]}

NextColor ==
    \E r \in Req :
        \/ CalendarLoadRecv(r, LoadReqs, "client")
        \/ CalendarLoadSelect(r, BOOLEAN)
        \/ CompatSaveRecv(r, CompatReqs, "client")
        \/ CompatSaveSelect(r)
        \/ CompatSaveWrite(r, {0})
        \/ Deliver(r)

SpecColor == InitColor /\ [][NextColor]_vars

(***************************************************************************)
(* SpecFrame: every resource-mutating save over well-formed and rejected   *)
(* requests: one request against a store that is empty or already holds    *)
(* rows.                                                                   *)
(***************************************************************************)
JwtAuths == {Jwt(1)} \cup BadJwts

\* every subset of the fields of a signed-token save
JwtSaveBodies ==
    {Fields([card_id |-> "c1", tasks |-> "t1", theme |-> "th"], S) :
        S \in SUBSET {"card_id", "tasks", "theme"}}
    \cup {[card_id |-> "", tasks |-> "t1", theme |-> "th"]}

FrameReqs ==
    GateReqs
    \cup {[ep |-> e, auth |-> a, body |-> b] :
             e \in {"annual_save", "weekly_save"}, a \in JwtAuths, b \in JwtSaveBodies}
    \cup ActivityReqs

NextFrame ==
    \E r \in Req :
        \/ TasksSaveRecv(r, FrameReqs, "one")
        \/ TasksSaveSelect(r)
        \/ TasksSaveWrite(r)
        \/ CalendarSaveRecv(r, FrameReqs, "one")
        \/ CalendarSaveDelete(r)
        \/ CalendarSaveUpdate(r, {0})
        \/ CalendarSaveSelect(r)
        \/ CalendarSaveWrite(r, {0})
        \/ JwtRecv(r, FrameReqs, "one")
        \/ JwtSaveUser(r)
        \/ JwtSaveSelect(r)
        \/ JwtSaveWrite(r)
        \/ ActivityUser(r, BOOLEAN)
        \/ ActivitySelect(r, BOOLEAN)
        \/ ActivityWrite(r, BOOLEAN)

SpecFrame == InitGate /\ [][NextFrame]_vars

(***************************************************************************)
(* SpecAuth: registration, login and Google sign-in executed one after     *)
(* another, every query and every email send free to fail.                 *)
(***************************************************************************)
MailZ == <<"z">>
NameC == <<"c">>

\* user a registered with a password and has not been sent the welcome
\* email; user b signed in with Google, has no password and has been sent it
AuthUsers ==
    {[id |-> 1, name |-> NameA, email |-> MailX, password_hash |-> bcryptHash("p1"),
      firebase_uid |-> "", welcome_email_sent |-> 0],
     [id |-> 2, name |-> NameB, email |-> MailY, password_hash |-> NullHash,
      firebase_uid |-> "f2", welcome_email_sent |-> 1]}

InitAuth ==
    /\ user = AuthUsers
    /\ task_rows = [t \in TaskTables |-> {}]
    /\ calendar_2025_tasks = {}
    /\ mind_tools_activity = {}
    /\ nextId = [t \in AllTables |-> 1]
    /\ pc = [r \in Req |-> "idle"]
    /\ req = [r \in Req |-> NoReq]
    /\ loc = [r \in Req |-> NoLoc]
    /\ resp = [r \in Req |-> NoResp]
    /\ calls = 0
    /\ held = 0
    /\ boot = NoBoot

AuthReqs ==
    {[ep |-> "register", body |-> b] :
        b \in {[username |-> NameC, email |-> MailZ, password |-> "p3"],
               [username |-> NameC, email |-> MailX, password |-> "p3"],
               [username |-> NameC, email |-> MailZ]}}
    \cup
    {[ep |-> "login", body |-> b] :
        b \in {[email |-> MailX, password |-> "p1"],
               [email |-> MailX, password |-> "p2"],
               [email |-> MailY, password |-> "p1"],
               [email |-> MailZ, password |-> "p3"],
               [email |-> MailX]}}
    \cup
    {[ep |-> "google", body |-> b] :
        b \in {[email |-> MailX, displayName |-> NameA, firebaseUid |-> "f1"],
               [email |-> MailY, displayName |-> NameB, firebaseUid |-> "f2"],
               [email |-> MailZ, displayName |-> NameC, firebaseUid |-> "f3",
                password |-> "p3", storePassword |-> TRUE]}}

NextAuth ==
    \E r \in Req :
        \/ AuthRecv(r, AuthReqs, "serial")
        \/ AuthGetConnection(r, BOOLEAN)
        \/ RegisterSelect(r, BOOLEAN)
        \/ RegisterInsert(r, BOOLEAN)
        \/ LoginSelect(r, BOOLEAN)
        \/ GoogleSelect(r, BOOLEAN)
        \/ GoogleWrite(r, BOOLEAN)
        \/ AuthUserData(r, BOOLEAN)
        \/ AuthEmail(r, BOOLEAN)
        \/ AuthFlag(r, BOOLEAN)

SpecAuth == InitAuth /\ [][NextAuth]_vars

(***************************************************************************)
(* Properties of the save endpoints.                                       *)
(***************************************************************************)
Answered(p) == p.n # 0

TaskSaveEndpoints == {"tasks_save", "annual_save", "weekly_save"}

\* a task-collection save that was answered created (201) or updated (200)
Saved(p) == Answered(p) /\ p.req.ep \in TaskSaveEndpoints /\ p.status \in {200, 201}

\* the table and the natural key an answered task-collection save addresses
SaveTable(p) ==
    IF p.req.ep = "tasks_save" THEN p.req.body.table ELSE JwtSaveTable(p.req.ep)

SaveKey(p) ==
    IF p.req.ep = "tasks_save"
    THEN [user_name |-> p.req.body.user_name, email |-> p.req.body.email,
          card_id |-> p.req.body.card_id, theme |-> p.req.body.theme]
    ELSE LET u == CHOOSE u \in Users : u.id = p.req.auth.id
         IN  [user_name |-> u.name, email |-> u.email,
              card_id |-> p.req.body.card_id, theme |-> p.req.body.theme]

\* the rows stored under a natural key
KeyRows(t, k) ==
    {x \in task_rows[t] : [user_name |-> x.user_name, email |-> x.email,
                           card_id |-> x.card_id, theme |-> x.theme] = k}

\* C1: with the saves executed one after another from an empty store, the
\* first save of a natural key is answered created (201), every later save of
\* that key is answered updated (200) with the same row id, and the key has
\* exactly one row, whose id is the id the responses carry.
C1_CreatedThenUpdated ==
    \A r1 \in Req :
        Saved(resp[r1]) =>
            /\ resp[r1].n = 1 => resp[r1].status = 201
            /\ Cardinality(KeyRows(SaveTable(resp[r1]), SaveKey(resp[r1]))) = 1
            /\ \A x \in KeyRows(SaveTable(resp[r1]), SaveKey(resp[r1])) : x.id = resp[r1].id
            /\ \A r2 \in Req :
                  ( /\ Saved(resp[r2])
                    /\ resp[r1].status = 201
                    /\ resp[r1].n < resp[r2].n
                    /\ SaveTable(resp[r2]) = SaveTable(resp[r1])
                    /\ SaveKey(resp[r2]) = SaveKey(resp[r1]) )
                  => resp[r2].status = 200 /\ resp[r2].id = resp[r1].id

\* two consecutive saves of one key through one endpoint: created, then
\* updated with the same id, one row stored, while another key's row exists
C1_Witness ==
    \E r1, r2 \in Req :
        /\ Saved(resp[r1]) /\ Saved(resp[r2])
        /\ resp[r2].n = resp[r1].n + 1
        /\ resp[r2].req.ep = "weekly_save" /\ resp[r1].req.ep = "weekly_save"
        /\ SaveKey(resp[r2]) = SaveKey(resp[r1])
        /\ resp[r1].status = 201 /\ resp[r2].status = 200
        /\ resp[r1].id = resp[r2].id
        /\ resp[r1].req.body.tasks # resp[r2].req.body.tasks
        /\ Cardinality(task_rows["weekly_planner_tasks"]) = 2

\* the identity the pseudo-token gate derives from a request's credential
\* differs from the identity its body claims
IdentityDiffers(q) ==
    /\ authenticateUserByToken(q.auth).ok
    /\ CalendarMismatch(q.body, authenticateUserByToken(q.auth))

\* C2: every request to POST /api/tasks/save or POST /api/calendar/save
\* whose body identity differs from its credential's identity is answered
\* 403, whatever else the payload holds.
C2_MismatchAlways403 ==
    \A r \in Req :
        ( /\ Answered(resp[r])
          /\ resp[r].req.ep \in {"tasks_save", "calendar_save"}
          /\ IdentityDiffers(resp[r].req) )
        => resp[r].status = 403

AllowedTables == {"vision_board_tasks", "weekly_planner_tasks"}

\* the request names a table outside the allowlist (or none)
BadTable(q) == q.ep = "tasks_save" /\ (Has(q.body, "table") => q.body.table \notin AllowedTables)

\* C3 as stated: a POST /api/tasks/save naming a table outside the
\* allowlist is answered 400 and executes no query.
C3_BadTable400 ==
    \A r \in Req :
        /\ (pc[r] # "idle" => ~BadTable(req[r]))
        /\ (Answered(resp[r]) /\ BadTable(resp[r].req))
           => resp[r].status = 400 /\ resp[r].nq = 0

\* every field POST /api/tasks/save requires is present and non-empty
TaskFieldsPresent(b) ==
    /\ ~FalsyText(b, "user_name") /\ ~FalsyText(b, "email")
    /\ ~FalsyStr(b, "card_id") /\ ~FalsyStr(b, "tasks")
    /\ ~FalsyStr(b, "theme") /\ ~FalsyStr(b, "table")

\* C3 amended: a POST /api/tasks/save naming a table outside the allowlist
\* never reaches a query and is rejected: 401 when the gate rejects the
\* credential, 403 when every required field is present and the body
\* identity differs from the credential's, 400 in every other case.
C3_BadTableRejectedNoQuery ==
    \A r \in Req :
        /\ (pc[r] # "idle" => ~BadTable(req[r]))
        /\ (Answered(resp[r]) /\ BadTable(resp[r].req))
           => /\ resp[r].nq = 0
              /\ resp[r].status =
                    IF ~authenticateUserByToken(resp[r].req.auth).ok THEN 401
                    ELSE IF TaskFieldsPresent(resp[r].req.body)
                            /\ IdentityDiffers(resp[r].req) THEN 403
                    ELSE 400

\* a credential of user a with every field valid except the table: 400, no query
C3_Witness ==
    \E r \in Req :
        /\ Answered(resp[r]) /\ BadTable(resp[r].req)
        /\ Has(resp[r].req.body, "table") /\ resp[r].req.body.table = "user"
        /\ TaskFieldsPresent(resp[r].req.body)
        /\ authenticateUserByToken(resp[r].req.auth).ok
        /\ ~IdentityDiffers(resp[r].req)
        /\ resp[r].status = 400 /\ resp[r].nq = 0
        /\ task_rows["vision_board_tasks"] # {}

\* the rows a calendar save's natural key addresses
CalendarKeyRows(b) == CalendarMatches(b.user_name, b.email, b.task_date, b.theme)

\* C10: a save whose existence check saw no row inserts whatever has been
\* stored under its natural key since: the write of POST /api/tasks/save and
\* of POST /api/calendar/save adds one row to the key's rows and answers 201.
C10_InsertAfterStaleCheck ==
    [][\A r \in Req :
          /\ (pc[r] = "tasks_write" /\ loc[r].existing = 0 /\ pc'[r] = "idle")
             => /\ resp'[r].status = 201
                /\ Cardinality(TaskMatches(task_rows'[req[r].body.table],
                                           req[r].body.user_name, req[r].body.email,
                                           req[r].body.card_id, req[r].body.theme))
                   = Cardinality(TaskMatches(task_rows[req[r].body.table],
                                             req[r].body.user_name, req[r].body.email,
                                             req[r].body.card_id, req[r].body.theme)) + 1
          /\ (pc[r] = "cal_write" /\ loc[r].existing = 0 /\ pc'[r] = "idle")
             => /\ resp'[r].status = 201
                /\ Cardinality({x \in calendar_2025_tasks' :
                                   /\ x.user_name = req[r].body.user_name
                                   /\ x.email = req[r].body.email
                                   /\ x.task_date = req[r].body.task_date
                                   /\ x.theme = req[r].body.theme})
                   = Cardinality(CalendarKeyRows(req[r].body)) + 1]_vars

\* two first-write saves of one key were both answered created, with
\* different row ids, and the key has two rows
C10_Witness ==
    \E r1, r2 \in Req :
        /\ r1 # r2
        /\ Saved(resp[r1]) /\ Saved(resp[r2])
        /\ resp[r1].status = 201 /\ resp[r2].status = 201
        /\ SaveTable(resp[r1]) = SaveTable(resp[r2])
        /\ SaveKey(resp[r1]) = SaveKey(resp[r2])
        /\ resp[r1].id # resp[r2].id
        /\ Cardinality(KeyRows(SaveTable(resp[r1]), SaveKey(resp[r1]))) = 2

(***************************************************************************)
(* Properties of the mind-tools counters.                                  *)
(***************************************************************************)
\* the results a sync handler holds after a step: in the response once it
\* has answered, in its locals while the loop runs
ResultsAfter(r) == IF pc'[r] = "idle" THEN resp'[r].results ELSE loc'[r].results

\* the step of handler r pushes the result of the item it stands at
Reported(r) ==
    /\ pc[r] \in {"sync_select", "sync_write"}
    /\ Len(ResultsAfter(r)) > Len(loc[r].results)

\* the result pushed by that step, and the item it is for
Entry(r) == ResultsAfter(r)[Len(loc[r].results) + 1]

CurrentItem(r) == req[r].body.activities[loc[r].i]

\* the count the client sent with an item, 1 when the field is omitted
ClientCount(item) == IF Has(item, "count") THEN item.count ELSE 1

\* the rows of the counter an item addresses, among rows
ItemRows(rows, r) ==
    CounterRows(rows, loc[r].email, CurrentItem(r).tracker_type,
                FormatDate(CurrentItem(r).activity_date))

\* C4: over sync calls executed one after another, the stored count of a
\* counter row never decreases: every row of a state is still there after
\* any step, with a count at least as large.
C4_CountNeverDecreases ==
    [][\A x \in mind_tools_activity :
          \E y \in mind_tools_activity' :
              /\ y.id = x.id
              /\ y.email = x.email
              /\ y.tracker_type = x.tracker_type
              /\ y.activity_date = x.activity_date
              /\ y.count >= x.count]_vars

\* a sync call that sent a count below the stored one was answered: the item
\* is reported unchanged with the stored count, and the row still holds it
C4_Witness ==
    \E r \in Req :
        /\ Answered(resp[r])
        /\ resp[r].req.ep = "sync"
        /\ resp[r].status = 200
        /\ \E i \in 1 .. Len(resp[r].results) :
              LET e == resp[r].results[i]
                  item == resp[r].req.body.activities[i]
              IN  /\ e.success
                  /\ e.message = "No update needed (server has higher count)"
                  /\ Has(item, "count")
                  /\ item.count < e.count
                  /\ \E x \in mind_tools_activity :
                        x.tracker_type = e.tracker_type /\ x.count = e.count

\* C5: a sync item of client count c that succeeds against stored count s
\* leaves max(s, c) stored and reports it: created with c when there was no
\* row, updated to c when c > s, unchanged at s when c <= s.
C5_MaxMerge ==
    [][\A r \in Req :
          Reported(r) /\ Entry(r).success =>
              LET c == ClientCount(CurrentItem(r))
                  before == ItemRows(mind_tools_activity, r)
                  after == ItemRows(mind_tools_activity', r)
              IN  IF before = {}
                  THEN /\ Entry(r).message = "Activity recorded"
                       /\ Entry(r).count = c
                       /\ \E y \in after : after = {y} /\ y.count = c
                  ELSE \A x \in before :
                          IF c > x.count
                          THEN /\ Entry(r).message = "Activity updated"
                               /\ Entry(r).count = c
                               /\ after = {[x EXCEPT !.count = c]}
                          ELSE /\ Entry(r).message =
                                      "No update needed (server has higher count)"
                               /\ Entry(r).count = x.count
                               /\ after = before
                               /\ mind_tools_activity' = mind_tools_activity]_vars

\* C6: the row a sync item inserts holds exactly the count the client
\* supplied, zero included, and 1 only when the count field is omitted.
C6_InsertsSuppliedCount ==
    [][\A r \in Req :
          /\ pc[r] = "sync_write"
          /\ loc[r].existing = 0
          /\ mind_tools_activity' # mind_tools_activity
          => \E y \in mind_tools_activity' \ mind_tools_activity :
                /\ mind_tools_activity' = mind_tools_activity \cup {y}
                /\ y.count = IF Has(CurrentItem(r), "count")
                             THEN CurrentItem(r).count ELSE 1]_vars

\* C7: a sync item whose tracker_type is outside the fixed set is reported
\* failed and no counter row is ever written for it.
C7_UnknownTrackerFails ==
    /\ \A x \in mind_tools_activity : x.tracker_type \in validTrackers
    /\ \A r \in Req :
          Answered(resp[r]) /\ resp[r].req.ep = "sync" /\ resp[r].status = 200 =>
              \A i \in 1 .. Len(resp[r].results) :
                  LET item == resp[r].req.body.activities[i]
                  IN  (Has(item, "tracker_type") /\ item.tracker_type \notin validTrackers)
                          => ~resp[r].results[i].success

\* the result e reports item
ResultOf(e, item) ==
    IF e.success
    THEN /\ Has(item, "tracker_type") /\ e.tracker_type = item.tracker_type
         /\ Has(item, "activity_date") /\ e.activity_date = FormatDate(item.activity_date)
    ELSE e.item = item

\* C8: an authenticated sync request with a non-empty activities array is
\* answered with exactly one result per item, in input order, whatever
\* items fail.
C8_OneResultPerItem ==
    \A r \in Req :
        /\ Answered(resp[r])
        /\ resp[r].req.ep = "sync"
        /\ JwtGateCheck(resp[r].req.auth) = 0
        /\ UserById(resp[r].req.auth.id) # {}
        /\ Has(resp[r].req.body, "activities")
        /\ resp[r].req.body.activities # <<>>
        => LET items == resp[r].req.body.activities
           IN  /\ resp[r].status = 200
               /\ Len(resp[r].results) = Len(items)
               /\ \A i \in 1 .. Len(items) : ResultOf(resp[r].results[i], items[i])

\* the rows of the counter an activity request addresses, among rows
ActivityRows(rows, r) ==
    CounterRows(rows, loc[r].email, req[r].body.tracker_type, ActivityDay(req[r].body))

\* C9: an activity call creates the counter with count 1 when it is absent
\* and otherwise stores the stored count plus one, the response reports the
\* count that call stored, and no counter is ahead of the number of calls.
C9_IncrementByOne ==
    [][/\ \A y \in mind_tools_activity' : y.count <= calls'
       /\ \A r \in Req :
             pc[r] = "act_write" /\ pc'[r] = "idle" =>
                 LET before == ActivityRows(mind_tools_activity, r)
                     after == ActivityRows(mind_tools_activity', r)
                 IN  IF before = {}
                     THEN /\ resp'[r].status = 201
                          /\ resp'[r].count = 1
                          /\ \E y \in after : after = {y} /\ y.count = 1
                     ELSE /\ resp'[r].status = 200
                          /\ \E x \in before :
                                /\ before = {x}
                                /\ after = {[x EXCEPT !.count = x.count + 1]}
                                /\ resp'[r].count = x.count + 1]_vars

\* MaxCalls activity calls were made one after another for one counter: it
\* holds MaxCalls, and the last response reports MaxCalls
C9_Witness ==
    /\ calls = MaxCalls
    /\ \E r \in Req :
          /\ Answered(resp[r])
          /\ resp[r].req.ep = "activity"
          /\ resp[r].status = 200
          /\ resp[r].count = MaxCalls
          /\ \E x \in mind_tools_activity :
                /\ x.tracker_type = resp[r].req.body.tracker_type
                /\ x.count = MaxCalls

(***************************************************************************)
(* Properties of the calendar colour codes.                                *)
(***************************************************************************)
\* a calendar read that was answered with its tasks
Loaded(p) == Answered(p) /\ p.req.ep \in CalendarLoadEndpoints /\ p.status = 200

\* C11: the read normalization is idempotent: normalizing a task a read
\* returned, or the normalization of any stored row, gives it back unchanged.
C11_NormalizeIdempotent ==
    /\ \A x \in calendar_2025_tasks : normalizeTask(normalizeTask(x)) = normalizeTask(x)
    /\ \A r \in Req :
          Loaded(resp[r]) => \A task \in resp[r].tasks : normalizeTask(task) = task

\* a read returned a task that differs from its stored row
C11_Witness ==
    \E r \in Req :
        /\ Loaded(resp[r])
        /\ \E task \in resp[r].tasks :
              \E x \in calendar_2025_tasks :
                  /\ x.id = task.id
                  /\ x.color_code # task.color_code
                  /\ normalizeTask(task) = task

\* the colour code is the prefix followed by the decimal text of n
IsColorOf(c, n) == n >= 0 /\ c = <<PrefixSym>> \o NatText(n)

\* C12: every task a calendar read returns has a colour code that begins
\* with the prefix; a stored code without the prefix comes back as the
\* prefix and the stored type, the type unchanged; a stored prefix-and-number
\* code comes back unchanged with the type set to its number.
C12_ReadNormalizes ==
    \A r \in Req :
        Loaded(resp[r]) =>
            /\ Cardinality(resp[r].tasks) =
                  Cardinality({x \in calendar_2025_tasks :
                                  /\ x.user_name = authenticateUserByToken(resp[r].req.auth).user_name
                                  /\ x.email = authenticateUserByToken(resp[r].req.auth).email
                                  /\ x.theme = LoadTheme(resp[r].req)})
            /\ \A task \in resp[r].tasks :
                  \E x \in calendar_2025_tasks :
                      /\ x.id = task.id
                      /\ task.color_code # <<>>
                      /\ task.color_code[1] = PrefixSym
                      /\ (Len(x.color_code) = 0 \/ x.color_code[1] # PrefixSym) =>
                            /\ task.color_code =
                                  <<PrefixSym>> \o
                                  (IF x.task_type < 0 THEN <<"-">> \o NatText(0 - x.task_type)
                                   ELSE NatText(x.task_type))
                            /\ task.task_type = x.task_type
                      /\ \A n \in 0 .. 12 :
                            IsColorOf(x.color_code, n) =>
                                task.color_code = x.color_code /\ task.task_type = n

\* both scenarios were read back: a code without the prefix with type 2,
\* and 'selected-color-5' stored with type 2
C12_Witness ==
    \E r \in Req :
        /\ Loaded(resp[r])
        /\ \E task \in resp[r].tasks, x \in calendar_2025_tasks :
              /\ x.id = task.id
              /\ x.task_type = 2
              /\ \/ x.color_code = <<"b">> /\ task.color_code = <<PrefixSym, "2">>
                 \/ x.color_code = <<PrefixSym, "5">> /\ task.task_type = 5

\* C13: after a successful POST /calendar2025/tasks the row written has a
\* colour code of the form 'selected-color-<N>' and a task_type equal to N.
C13_CompatWriteConsistent ==
    \A r \in Req :
        ( /\ Answered(resp[r])
          /\ resp[r].req.ep = "calendar2025_save"
          /\ resp[r].status \in {200, 201} )
        => \E x \in calendar_2025_tasks :
              /\ x.id = resp[r].id
              /\ \E n \in 0 .. 12 : IsColorOf(x.color_code, n) /\ x.task_type = n

(***************************************************************************)
(* Properties of rejected requests.                                        *)
(***************************************************************************)
MutatingEndpoints == {"tasks_save", "calendar_save", "annual_save", "weekly_save", "activity"}

\* the tables, as a request that is the first one finds them
Tables == [task_rows |-> task_rows, calendar_2025_tasks |-> calendar_2025_tasks,
           mind_tools_activity |-> mind_tools_activity, user |-> user, nextId |-> nextId]

EmptyTables ==
    [task_rows |-> [t \in TaskTables |-> {}], calendar_2025_tasks |-> {},
     mind_tools_activity |-> {}, user |-> Users, nextId |-> [t \in AllTables |-> 1]]

FullTables ==
    [task_rows |-> [t \in TaskTables |-> {StoredTaskRow}],
     calendar_2025_tasks |-> {StoredCalendarRow},
     mind_tools_activity |-> {}, user |-> Users,
     nextId |-> [t \in AllTables |-> IF t = "mind_tools_activity" THEN 1 ELSE 2]]

\* a save that was answered with an authentication, authorization or
\* validation failure
Rejected(p) ==
    Answered(p) /\ p.req.ep \in MutatingEndpoints /\ p.status \in {400, 401, 403}

\* C14: a save answered 401, 403 or 400 has executed no insert, update or
\* delete: every table is as the request found it (and at most the user
\* lookup has run).
C14_RejectedChangesNothing ==
    \A r \in Req :
        Rejected(resp[r]) => Tables \in {EmptyTables, FullTables} /\ resp[r].nq <= 1

\* a save was rejected after its user lookup against a store that holds
\* rows, while the tables are as they were
C14_Witness ==
    \E r \in Req :
        /\ Rejected(resp[r])
        /\ resp[r].status = 400
        /\ resp[r].nq = 1
        /\ Tables = FullTables

(***************************************************************************)
(* Properties of the auth endpoints and of the pool.                       *)
(***************************************************************************)
\* the handler of slot r waits for the welcome email or for the query that
\* records it: everything else of the request has succeeded
PastPrimary(r) == pc[r] \in {"auth_email", "auth_flag"}

\* C15: once the rest of a registration, login or Google sign-in has
\* succeeded, the request is answered with the success response prepared
\* before the email was sent (201/200, user, token), whether the send
\* resolved or threw, and the user row of the request is kept.
C15_EmailNeverChangesOutcome ==
    [][\A r \in Req :
          PastPrimary(r) =>
              /\ pc'[r] \in {"auth_email", "auth_flag", "idle"}
              /\ \E u \in user' : u.id = loc[r].userId /\ u.email = loc[r].token.email
              /\ pc'[r] = "idle" =>
                    /\ resp'[r].status = SuccessStatus(req[r].ep)
                    /\ resp'[r].user = loc[r].userData
                    /\ resp'[r].token = loc[r].token
                    /\ resp'[r].mail \in {"sent", "threw"}]_vars

\* one login answered after the email threw and one answered after it was
\* sent: the same success response
C15_Witness ==
    \E r1, r2 \in Req :
        /\ Answered(resp[r1]) /\ Answered(resp[r2])
        /\ resp[r1].req = resp[r2].req
        /\ resp[r1].req.ep = "login"
        /\ resp[r1].mail = "threw" /\ resp[r2].mail = "sent"
        /\ resp[r1].status = 200 /\ resp[r2].status = 200
        /\ resp[r1].user = resp[r2].user
        /\ resp[r1].token = resp[r2].token
        /\ \E u \in user : u.id = resp[r1].user.id

\* the handler of slot r holds a pool connection
Holding(r) == pc[r] # "idle" /\ req[r].ep \in AuthEndpoints /\ loc[r].conn

\* C16: the connections handed out are exactly those of the handlers that
\* took one and have not left yet: every exit path releases the handler's
\* connection once, and with no request in flight none is held.
C16_ConnectionsReleased ==
    /\ held = Cardinality({r \in Req : Holding(r)})
    /\ (\A r \in Req : pc[r] = "idle") => held = 0

\* all requests have finished, one through the catch block after it took a
\* connection, one through an early 401 return, and no connection is held
C16_Witness ==
    /\ \A r \in Req : pc[r] = "idle"
    /\ calls = MaxCalls
    /\ held = 0
    /\ \E r1, r2 \in Req :
          /\ resp[r1].n # 0 /\ resp[r1].req.ep \in AuthEndpoints
          /\ resp[r1].status = 500 /\ resp[r1].nq >= 1
          /\ resp[r2].n # 0 /\ resp[r2].req.ep = "login" /\ resp[r2].status = 401

(***************************************************************************)
(* GET /auth/profile and the signed-token reads.                           *)
(***************************************************************************)
\* the name of the error jwt.verify hands to its callback, "" when the token
\* verifies: the library checks the signature first and the expiry after
jwtVerifyError(h) ==
    IF h.sig # "ok" THEN "JsonWebTokenError"
    ELSE IF h.expired THEN "TokenExpiredError"
    ELSE ""

\* the catch block of GET /auth/profile: error.name === 'JsonWebTokenError'
ProfileCatch(name) == IF name = "JsonWebTokenError" THEN 401 ELSE 500

\* GET /auth/profile up to its user lookup
ProfileRecv(r, Q, mode) ==
    /\ CanRecv(r, mode)
    /\ calls' = calls + 1
    /\ UnchangedDb
    /\ \E q \in Q :
          /\ q.ep = "profile"
          /\ IF NoBearer(q.auth)
             THEN ReplyWith(r, q, calls + 1, 401, 0, [user |-> NoUserData])
             ELSE IF jwtVerifyError(q.auth) # ""
             THEN ReplyWith(r, q, calls + 1, ProfileCatch(jwtVerifyError(q.auth)), 0,
                            [user |-> NoUserData])
             ELSE Await(r, q, "profile_select", [nq |-> 0, n |-> calls + 1])

\* SELECT id, name, email, created_at FROM user WHERE id = ? returns or
\* throws (a query error is no JsonWebTokenError)
ProfileSelect(r, F) ==
    /\ pc[r] = "profile_select"
    /\ UNCHANGED calls
    /\ UnchangedDb
    /\ \E ok \in F :
          LET found == UserById(req[r].auth.id)
              nq == loc[r].nq + 1
          IN  IF ~ok
              THEN ReplyWith(r, req[r], loc[r].n, ProfileCatch("Error"), nq,
                             [user |-> NoUserData])
              ELSE IF found = {}
              THEN ReplyWith(r, req[r], loc[r].n, 404, nq, [user |-> NoUserData])
              ELSE \E u \in found :
                       ReplyWith(r, req[r], loc[r].n, 200, nq, [user |-> UserData(u)])

\* GET /annual-calendar/tasks, GET /weekly-planner/tasks, GET /api/mind-tools/activity
JwtGetEndpoints == {"annual_load", "weekly_load", "activity_load"}

\* the handler up to `await query('SELECT id, name, email FROM user WHERE id = ?')`
JwtGetRecv(r, Q, mode) ==
    /\ CanRecv(r, mode)
    /\ calls' = calls + 1
    /\ UnchangedDb
    /\ \E q \in Q :
          /\ q.ep \in JwtGetEndpoints
          /\ LET s == JwtGateCheck(q.auth)
             IN  IF s # 0
                 THEN ReplyWith(r, q, calls + 1, s, 0, [rows |-> {}])
                 ELSE Await(r, q, "get_user", [nq |-> 0, n |-> calls + 1])

\* the user lookup returns
JwtGetUser(r, F) ==
    /\ pc[r] = "get_user"
    /\ UNCHANGED calls
    /\ UnchangedDb
    /\ \E ok \in F :
          LET found == UserById(req[r].auth.id)
              nq == loc[r].nq + 1
          IN  IF ~ok
              THEN ReplyWith(r, req[r], loc[r].n, 500, nq, [rows |-> {}])
              ELSE IF found = {}
              THEN ReplyWith(r, req[r], loc[r].n, 404, nq, [rows |-> {}])
              ELSE \E u \in found :
                       Await(r, req[r], "get_select",
                             [n |-> loc[r].n, nq |-> nq, user_name |-> u.name,
                              email |-> u.email])

\* req.query.tracker_types ? req.query.tracker_types.split(',') : [all four]
trackerTypes(b) == IF Has(b, "tracker_types") THEN b.tracker_types ELSE validTrackers

\* the rows the read selects: SELECT * FROM <table> WHERE user_name = ? AND
\* email = ?, or the counters of the user's email and the tracker types asked
\* for, each under the day its date formats to
JwtGetRows(r) ==
    IF req[r].ep = "activity_load"
    THEN {[tracker_type |-> x.tracker_type, date |-> FormatDate(x.activity_date),
           count |-> x.count] :
             x \in {y \in mind_tools_activity :
                       /\ y.email = loc[r].email
                       /\ y.tracker_type \in trackerTypes(req[r].body)}}
    ELSE {x \in task_rows[IF req[r].ep = "annual_load" THEN "annual_calendar_tasks"
                          ELSE "weekly_planner_tasks"] :
             x.user_name = loc[r].user_name /\ x.email = loc[r].email}

\* the SELECT returns and the rows are sent
JwtGetSelect(r, F) ==
    /\ pc[r] = "get_select"
    /\ UNCHANGED calls
    /\ UnchangedDb
    /\ \E ok \in F :
          IF ~ok
          THEN ReplyWith(r, req[r], loc[r].n, 500, loc[r].nq + 1, [rows |-> {}])
          ELSE ReplyWith(r, req[r], loc[r].n, 200, loc[r].nq + 1, [rows |-> JwtGetRows(r)])

(***************************************************************************)
(* SpecToken: every endpoint behind the signed-token gate under every      *)
(* shape of token, one client sending request after request, the database  *)
(* available.                                                              *)
(***************************************************************************)
\* a verified token of user a, of user b and of an id that has no row, and
\* the tokens the gate rejects
TokenAuths == {Jwt(1), Jwt(2)} \cup BadJwts

TokenReqs ==
    {[ep |-> e, auth |-> a, body |-> [other |-> 0]] :
        e \in {"profile", "annual_load", "weekly_load", "activity_load"},
        a \in TokenAuths}
    \cup
    {[ep |-> "activity_load", auth |-> Jwt(1),
      body |-> [tracker_types |-> {"break_things"}]]}
    \cup
    {[ep |-> e, auth |-> a, body |-> [card_id |-> "c1", tasks |-> "t1", theme |-> "th"]] :
        e \in {"annual_save", "weekly_save"}, a \in TokenAuths}
    \cup
    {[ep |-> "activity", auth |-> a, body |-> [tracker_type |-> "break_things"]] :
        a \in TokenAuths}
    \cup
    {[ep |-> "sync", auth |-> a,
      body |-> [activities |-> <<[tracker_type |-> "break_things", activity_date |-> D1]>>]] :
        a \in TokenAuths}

NextToken ==
    \E r \in Req :
        \/ ProfileRecv(r, TokenReqs, "client")
        \/ ProfileSelect(r, {TRUE})
        \/ JwtGetRecv(r, TokenReqs, "client")
        \/ JwtGetUser(r, {TRUE})
        \/ JwtGetSelect(r, {TRUE})
        \/ JwtRecv(r, TokenReqs, "client")
        \/ JwtSaveUser(r)
        \/ JwtSaveSelect(r)
        \/ JwtSaveWrite(r)
        \/ ActivityUser(r, {TRUE})
        \/ ActivitySelect(r, {TRUE})
        \/ ActivityWrite(r, {TRUE})
        \/ SyncUser(r, {TRUE})
        \/ SyncSelect(r, {TRUE})
        \/ SyncWrite(r, {TRUE})
        \/ Deliver(r)

SpecToken == Init /\ [][NextToken]_vars

(***************************************************************************)
(* Properties of the signed-token gate.                                    *)
(***************************************************************************)
SignedTokenEndpoints == {"profile"} \cup JwtGetEndpoints \cup JwtEndpoints

\* a Bearer token whose signature is wrong, or that has expired
BadToken(h) == ~NoBearer(h) /\ (h.sig # "ok" \/ h.expired)

\* a Bearer token that verifies and carries the id of no user row
UnknownUser(h) == ~NoBearer(h) /\ h.sig = "ok" /\ ~h.expired /\ UserById(h.id) = {}

\* C17: on every endpoint behind the signed-token gate, a request whose
\* token has a wrong signature or has expired is answered 401, and a request
\* whose token verifies but names no user row is answered 404.
C17_TokenRejections ==
    \A r \in Req :
        Answered(resp[r]) /\ resp[r].req.ep \in SignedTokenEndpoints =>
            /\ BadToken(resp[r].req.auth) => resp[r].status = 401
            /\ UnknownUser(resp[r].req.auth) => resp[r].status = 404

(***************************************************************************)
(* SpecBearer: the endpoints behind the pseudo-token gate under every      *)
(* shape of Authorization header, one client sending request after         *)
(* request.                                                                *)
(***************************************************************************)
\* headers: none, another scheme, the prefix alone, an empty name, an empty
\* email, no colon, name:email, and remainders that contain a colon
BearerAuths ==
    {<<>>,
     <<"Basic ">> \o NameA \o <<":">> \o MailX,
     <<BearerSym>>,
     <<BearerSym, ":">> \o MailX,
     <<BearerSym>> \o NameA \o <<":">>,
     <<BearerSym>> \o NameA,
     PseudoToken(NameA, MailX),
     PseudoToken(NameB, MailY),
     PseudoToken(NameA, MailX \o <<":">> \o MailY),
     PseudoToken(NameA, <<":">> \o MailX)}

BearerReqs ==
    {[ep |-> e, auth |-> a, body |-> [theme |-> "th"]] :
        e \in CalendarLoadEndpoints, a \in BearerAuths}
    \cup
    {[ep |-> "tasks_save", auth |-> a,
      body |-> [user_name |-> NameA, email |-> MailX, card_id |-> c, tasks |-> "t1",
                theme |-> "th", table |-> "vision_board_tasks"]] :
        a \in BearerAuths, c \in Cards}

NextBearer ==
    \E r \in Req :
        \/ CalendarLoadRecv(r, BearerReqs, "client")
        \/ CalendarLoadSelect(r, BOOLEAN)
        \/ TasksSaveRecv(r, BearerReqs, "client")
        \/ TasksSaveSelect(r)
        \/ TasksSaveWrite(r)
        \/ Deliver(r)

SpecBearer == Init /\ [][NextBearer]_vars

(***************************************************************************)
(* Properties of the pseudo-token gate.                                    *)
(***************************************************************************)
PseudoTokenEndpoints == CalendarLoadEndpoints \cup {"tasks_save", "calendar_save"}

\* the position of the first colon of a text, 0 when it has none
FirstColon(t) ==
    IF \A i \in 1 .. Len(t) : t[i] # ":" THEN 0
    ELSE CHOOSE i \in 1 .. Len(t) : t[i] = ":" /\ \A j \in 1 .. (i - 1) : t[j] # ":"

\* the text of a header after 'Bearer '
AfterBearer(h) == SubSeq(h, 2, Len(h))

\* the text before the first colon, and everything after it
BeforeFirstColon(t) == IF FirstColon(t) = 0 THEN t ELSE SubSeq(t, 1, FirstColon(t) - 1)
AfterFirstColon(t) == IF FirstColon(t) = 0 THEN <<>> ELSE SubSeq(t, FirstColon(t) + 1, Len(t))

\* the header is missing, lacks the prefix, or its name or email is empty
Malformed(h) ==
    \/ h = <<>>
    \/ h[1] # BearerSym
    \/ BeforeFirstColon(AfterBearer(h)) = <<>>
    \/ AfterFirstColon(AfterBearer(h)) = <<>>

\* C18: a handler behind the pseudo-token gate runs under the identity whose
\* name is the text before the first colon of the token and whose email is
\* everything after that colon; a request whose header is missing,
\* unprefixed or has an empty name or email is answered 401 before any query.
C18_SplitOnFirstColon ==
    \A r \in Req :
        /\ pc[r] = "load_select" =>
              /\ loc[r].user_name = BeforeFirstColon(AfterBearer(req[r].auth))
              /\ loc[r].email = AfterFirstColon(AfterBearer(req[r].auth))
        /\ Answered(resp[r]) /\ resp[r].req.ep \in PseudoTokenEndpoints
              /\ Malformed(resp[r].req.auth) =>
                 resp[r].status = 401 /\ resp[r].nq = 0

(***************************************************************************)
(* PUT /calendar2025/tasks/:id: no gate, the identity is taken from the    *)
(* body and the row id from the path.                                      *)
(***************************************************************************)
\* the columns of the dynamic SET clause (theme is not read from the body)
PutSetFields(b) ==
    {f \in {"task_type", "task_description", "color_code", "task_date"} : Has(b, f)}

\* the handler up to its UPDATE
PutUpdateRecv(r, Q, mode) ==
    /\ CanRecv(r, mode)
    /\ calls' = calls + 1
    /\ UnchangedDb
    /\ \E q \in Q :
          /\ q.ep = "calendar2025_update"
          /\ IF FalsyText(q.body, "user_name") \/ FalsyText(q.body, "email")
             THEN Reply(r, q, calls + 1, 400, 0, 0)
             ELSE Await(r, q, "put_update", [nq |-> 0, n |-> calls + 1])

\* UPDATE calendar_2025_tasks SET <present fields>, updated_at = NOW()
\*   WHERE id = ? AND user_name = ? AND email = ?
PutUpdate(r, T, F) ==
    /\ pc[r] = "put_update"
    /\ \E ok \in F, now \in Now(T) :
          LET b == req[r].body
              hit == CalendarOwned(req[r].id, b.user_name, b.email)
          IN  IF ~ok
              THEN /\ UNCHANGED calendar_2025_tasks
                   /\ Reply(r, req[r], loc[r].n, 500, 0, loc[r].nq + 1)
              ELSE /\ calendar_2025_tasks' =
                          (calendar_2025_tasks \ hit) \cup
                          {[SetColumns(x, b, PutSetFields(b)) EXCEPT !.updated_at = now] :
                              x \in hit}
                   /\ Reply(r, req[r], loc[r].n, IF hit # {} THEN 200 ELSE 404,
                            IF hit # {} THEN req[r].id ELSE 0, loc[r].nq + 1)
    /\ UNCHANGED <<held, boot, user, task_rows, mind_tools_activity, nextId, calls>>

(***************************************************************************)
(* SpecUpdate: calendar updates by row id through both endpoints, over     *)
(* every subset of the updatable fields, one client sending request after  *)
(* request against a store that holds two rows of user a and one of user   *)
(* b.                                                                      *)
(***************************************************************************)
UpdateRows ==
    {StoredCalendarRow,
     [StoredCalendarRow EXCEPT !.id = 2, !.task_date = "d2"],
     [StoredCalendarRow EXCEPT !.id = 3, !.user_name = NameB, !.email = MailY]}

InitUpdate ==
    /\ user = Users
    /\ task_rows = [t \in TaskTables |-> {}]
    /\ calendar_2025_tasks = UpdateRows
    /\ mind_tools_activity = {}
    /\ nextId = [t \in AllTables |-> IF t = "calendar_2025_tasks" THEN 4 ELSE 1]
    /\ pc = [r \in Req |-> "idle"]
    /\ req = [r \in Req |-> NoReq]
    /\ loc = [r \in Req |-> NoLoc]
    /\ resp = [r \in Req |-> NoResp]
    /\ calls = 0
    /\ held = 0
    /\ boot = NoBoot

UpdateFieldNames == {"task_type", "task_description", "color_code", "task_date", "theme"}

\* the new values an update can carry, any subset of them sent
UpdateBodies ==
    {Fields([task_type |-> 7, task_description |-> "x1",
             color_code |-> "selected-color-7", task_date |-> "d3", theme |-> "th2"], S) :
        S \in SUBSET UpdateFieldNames}

\* updates of user a: of a row of theirs, of a row of user b, of no row
UpdateReqs ==
    {[ep |-> "calendar_save", auth |-> PseudoToken(NameA, MailX),
      body |-> [user_name |-> NameA, email |-> MailX, id |-> i] @@ b] :
        i \in {1, 3, 4}, b \in UpdateBodies}
    \cup
    {[ep |-> "calendar2025_update", id |-> i,
      body |-> [user_name |-> NameA, email |-> MailX] @@ b] :
        i \in {1, 3, 4}, b \in UpdateBodies}
    \cup
    {[ep |-> "calendar2025_update", id |-> 1, body |-> [user_name |-> NameA] @@ b] :
        b \in UpdateBodies}

NextUpdate ==
    \E r \in Req :
        \/ CalendarSaveRecv(r, UpdateReqs, "client")
        \/ CalendarSaveUpdate(r, {0, 1})
        \/ PutUpdateRecv(r, UpdateReqs, "client")
        \/ PutUpdate(r, {0, 1}, BOOLEAN)
        \/ Deliver(r)

SpecUpdate == InitUpdate /\ [][NextUpdate]_vars

(***************************************************************************)
(* Properties of the calendar update by row id.                            *)
(***************************************************************************)
\* the handler of slot r is about to run its UPDATE by row id
Updating(r) == pc[r] \in {"cal_update", "put_update"}

\* the row id an update addresses: body.id, or the :id of the path
TargetId(q) == IF q.ep = "calendar_save" THEN q.body.id ELSE q.id

\* C19: an update by row id changes no other row, leaves every column of
\* the targeted row whose field the payload does not carry as it was, moves
\* updated_at of an updated row to the current time, and its 200 response
\* carries the id of the row, which existed before.
C19_PartialUpdate ==
    [][\A r \in Req :
          Updating(r) /\ pc'[r] = "idle" =>
              LET q == req[r]
                  id == TargetId(q)
              IN  /\ {x \in calendar_2025_tasks' : x.id # id}
                        = {x \in calendar_2025_tasks : x.id # id}
                  /\ \A x \in calendar_2025_tasks :
                        x.id = id =>
                            \E y \in calendar_2025_tasks' :
                                /\ y.id = id
                                /\ \A f \in DOMAIN x \ {"updated_at"} :
                                      ~Has(q.body, f) => y[f] = x[f]
                                /\ y.updated_at >= x.updated_at
                                /\ resp'[r].status = 200 =>
                                      \A z \in calendar_2025_tasks' :
                                          z.updated_at <= y.updated_at
                  /\ Cardinality(calendar_2025_tasks') = Cardinality(calendar_2025_tasks)
                  /\ resp'[r].status = 200 =>
                        /\ resp'[r].id = id
                        /\ \E x \in calendar_2025_tasks : x.id = id]_vars

\* a PUT that carried a colour code and a date but no type and no
\* description was answered 200: the row has the new colour and date, its
\* old type and description and a later updated_at; the other rows are as
\* they were
C19_Witness ==
    \E r \in Req :
        /\ Answered(resp[r])
        /\ resp[r].req.ep = "calendar2025_update"
        /\ resp[r].status = 200
        /\ resp[r].id = 1
        /\ DOMAIN resp[r].req.body = {"user_name", "email", "color_code", "task_date"}
        /\ calendar_2025_tasks =
              (UpdateRows \ {StoredCalendarRow}) \cup
              {[StoredCalendarRow EXCEPT !.color_code = "selected-color-7",
                                         !.task_date = "d3", !.updated_at = 1]}

(***************************************************************************)
(* GET /db-test                                                            *)
(***************************************************************************)
\* the handler up to `await query('SELECT 1 + 1 AS solution')`
DbTestRecv(r, Q, mode) ==
    /\ CanRecv(r, mode)
    /\ calls' = calls + 1
    /\ UnchangedDb
    /\ \E q \in Q :
          /\ q.ep = "db_test"
          /\ Await(r, q, "db_test_query", [nq |-> 0, n |-> calls + 1])

\* the query returns or throws
DbTestQuery(r, F) ==
    /\ pc[r] = "db_test_query"
    /\ UNCHANGED calls
    /\ UnchangedDb
    /\ \E ok \in F :
          ReplyWith(r, req[r], loc[r].n, IF ok THEN 200 ELSE 500, loc[r].nq + 1,
                    [connected |-> ok])

(***************************************************************************)
(* SpecStartup: testConnection(retries) running from module load under     *)
(* every pattern of connection failures while the server answers GET       *)
(* /db-test.  The callback of pool.getConnection is always called and the  *)
(* retry timer always fires, so both steps are weakly fair.                *)
(***************************************************************************)
MaxRetries == 3    \* the largest retry count testConnection is called with

InitStartup ==
    /\ user = Users
    /\ task_rows = [t \in TaskTables |-> {}]
    /\ calendar_2025_tasks = {}
    /\ mind_tools_activity = {}
    /\ nextId = [t \in AllTables |-> 1]
    /\ pc = [r \in Req |-> "idle"]
    /\ req = [r \in Req |-> NoReq]
    /\ loc = [r \in Req |-> NoLoc]
    /\ resp = [r \in Req |-> NoResp]
    /\ calls = 0
    /\ held = 0
    /\ \E retries \in 0 .. MaxRetries : boot = BootStart(retries)

DbTestReqs == {[ep |-> "db_test"]}

NextStartup ==
    \/ TryConnect(BOOLEAN)
    \/ RetryTimer
    \/ \E r \in Req :
          \/ DbTestRecv(r, DbTestReqs, "conc")
          \/ DbTestQuery(r, BOOLEAN)

SpecStartup ==
    /\ InitStartup
    /\ [][NextStartup]_vars
    /\ WF_vars(TryConnect(BOOLEAN))
    /\ WF_vars(RetryTimer)

(***************************************************************************)
(* Properties of testConnection.                                           *)
(***************************************************************************)
\* the promise testConnection returned has been resolved or rejected
Settled == boot.state \in {"resolved", "rejected"}

\* what holds of testConnection at every moment
TestConnectionSafe ==
    /\ boot.attempts <= boot.retries + 1
    /\ boot.attempts = boot.retries - boot.attemptsLeft + (IF boot.state = "trying" THEN 0 ELSE 1)
    /\ boot.attemptsLeft >= 0
    /\ boot.state = "waiting" => boot.attemptsLeft > 0 /\ boot.failed = boot.attempts
    /\ boot.state = "trying" => boot.failed = boot.attempts
    /\ boot.state = "resolved" =>
          /\ boot.failed = boot.attempts - 1
          /\ boot.rejectedWith = 0
          /\ held = 0
    /\ boot.state = "rejected" =>
          /\ boot.failed = boot.attempts
          /\ boot.attempts = boot.retries + 1
          /\ boot.rejectedWith = boot.attempts
          /\ held = 0

DefaultRetries == 3

\* the handler up to `await testConnection()`: tryConnect(retries) is entered
HealthRecv(r, Q, mode) ==
    /\ CanRecv(r, mode)
    /\ calls' = calls + 1
    /\ UnchangedDb
    /\ \E q \in Q :
          /\ q.ep = "health"
          /\ Await(r, q, "health_try",
                   [nq |-> 0, n |-> calls + 1, attemptsLeft |-> DefaultRetries,
                    attempts |-> 0])

\* the callback of pool.getConnection runs for the request's testConnection:
\* with an error (a retry is scheduled, or the promise is rejected and the
\* handler answers 500), or with a connection, which is released before the
\* promise is resolved and the handler answers 200
HealthTryConnect(r, F) ==
    /\ pc[r] = "health_try"
    /\ UNCHANGED <<boot, user, task_rows, calendar_2025_tasks, mind_tools_activity,
                   nextId, calls>>
    /\ \E ok \in F :
          IF ~ok
          THEN /\ UNCHANGED held
               /\ IF MayRetry(loc[r].attemptsLeft)
                  THEN Await(r, req[r], "health_wait",
                             [loc[r] EXCEPT !.attempts = @ + 1])
                  ELSE ReplyWith(r, req[r], loc[r].n, 500, 0,
                                 [attempts |-> loc[r].attempts + 1])
          ELSE /\ PoolFree
               /\ held' = release(held + 1)
               /\ ReplyWith(r, req[r], loc[r].n, 200, 0,
                            [attempts |-> loc[r].attempts + 1])

\* setTimeout(() => tryConnect(attemptsLeft - 1), 5000) fires for the request
HealthRetryTimer(r) ==
    /\ pc[r] = "health_wait"
    /\ UNCHANGED calls
    /\ UnchangedDb
    /\ Await(r, req[r], "health_try", [loc[r] EXCEPT !.attemptsLeft = @ - 1])

(***************************************************************************)
(* SpecHealth: testConnection running from module load while one client    *)
(* sends GET /health and GET /db-test requests, every connection attempt   *)
(* and query free to fail.                                                 *)
(***************************************************************************)
HealthReqs == {[ep |-> "health"], [ep |-> "db_test"]}

NextHealth ==
    \/ TryConnect(BOOLEAN)
    \/ RetryTimer
    \/ \E r \in Req :
          \/ HealthRecv(r, HealthReqs, "client")
          \/ HealthTryConnect(r, BOOLEAN)
          \/ HealthRetryTimer(r)
          \/ DbTestRecv(r, HealthReqs, "client")
          \/ DbTestQuery(r, BOOLEAN)
          \/ Deliver(r)

SpecHealth == InitStartup /\ [][NextHealth]_vars

(***************************************************************************)
(* Properties of the retry loop.                                           *)
(***************************************************************************)
\* the connection attempts made for an answered request: those of its
\* testConnection, or one per query
ConnectionAttempts(p) == IF p.req.ep = "health" THEN p.attempts ELSE p.nq

\* C21: no request schedules a connection retry: no handler waits on the
\* retry timer, and a request answered with a connection failure has made
\* a single connection attempt.
C21_RetryAtStartupOnly ==
    \A r \in Req :
        /\ pc[r] # "health_wait"
        /\ Answered(resp[r]) /\ resp[r].status = 500 =>
              ConnectionAttempts(resp[r]) <= 1

(***************************************************************************)
(* SpecRound: the client of test_api.js and its like: registrations,       *)
(* logins and profile reads sent one after another, each profile read      *)
(* presenting a token an earlier response returned.  The database is       *)
(* available; the welcome email and its flag update are free to fail.      *)
(***************************************************************************)
\* Authorization: `Bearer ${token}` for a token of this server, presented
\* within its seven days: jwt.verify yields the payload that was signed
BearerOf(token) == [scheme |-> "Bearer", sig |-> "ok", expired |-> FALSE, id |-> token.id]

\* the responses that returned a token
Issued == {o \in Req : Answered(resp[o]) /\ Has(resp[o], "token") /\ resp[o].token # NoToken}

RoundProfileReqs ==
    {[ep |-> "profile", auth |-> BearerOf(resp[o].token), body |-> [other |-> 0]] :
        o \in Issued}

RoundReqs ==
    {[ep |-> "register", body |-> b] :
        b \in {[username |-> NameC, email |-> MailZ, password |-> "p3"],
               [username |-> NameC, email |-> MailX, password |-> "p3"]}}
    \cup
    {[ep |-> "login", body |-> b] :
        b \in {[email |-> MailX, password |-> "p1"],
               [email |-> MailZ, password |-> "p3"],
               [email |-> MailZ, password |-> "p1"]}}

NextRound ==
    \E r \in Req :
        \/ AuthRecv(r, RoundReqs, "serial")
        \/ AuthGetConnection(r, {TRUE})
        \/ RegisterSelect(r, {TRUE})
        \/ RegisterInsert(r, {TRUE})
        \/ LoginSelect(r, {TRUE})
        \/ AuthUserData(r, {TRUE})
        \/ AuthEmail(r, BOOLEAN)
        \/ AuthFlag(r, BOOLEAN)
        \/ ProfileRecv(r, RoundProfileReqs, "serial")
        \/ ProfileSelect(r, {TRUE})

SpecRound == InitAuth /\ [][NextRound]_vars

(***************************************************************************)
(* Properties of the register / login / profile round trip.                *)
(***************************************************************************)
\* response p answers the request sent right after the one q answers
Follows(p, q) == Answered(p) /\ Answered(q) /\ p.n = q.n + 1

Registered(q) == q.req.ep = "register" /\ q.status = 201

LoggedIn(q) == q.req.ep = "login" /\ q.status = 200

\* p answers a profile read that presented the token q returned
ProfileWith(p, q) == p.req.ep = "profile" /\ p.req.auth = BearerOf(q.token)

\* C22: the token a successful registration returns is accepted by the
\* profile read and yields the registered user's row; a login with the
\* registered email and password then succeeds for that user; and the token
\* the login returns is accepted by the profile read for the same user.
C22_RegisterLoginProfile ==
    \A r, o \in Req :
        Follows(resp[r], resp[o]) =>
            /\ Registered(resp[o]) /\ ProfileWith(resp[r], resp[o]) =>
                  /\ resp[r].status = 200
                  /\ resp[r].user = resp[o].user
                  /\ resp[r].user.email = resp[o].req.body.email
                  /\ resp[r].user.name = resp[o].req.body.username
            /\ Registered(resp[o]) /\ resp[r].req.ep = "login"
                  /\ resp[r].req.body.email = resp[o].req.body.email
                  /\ resp[r].req.body.password = resp[o].req.body.password =>
                  /\ resp[r].status = 200
                  /\ resp[r].user = resp[o].user
                  /\ resp[r].token.id = resp[o].user.id
            /\ LoggedIn(resp[o]) /\ ProfileWith(resp[r], resp[o]) =>
                  /\ resp[r].status = 200
                  /\ resp[r].user = resp[o].user

\* the third request of a client that registered user c and logged in as
\* c: the profile read with the login's token returned c's row
C22_Witness ==
    \E r, o \in Req :
        /\ Follows(resp[r], resp[o])
        /\ resp[r].n = 3
        /\ LoggedIn(resp[o]) /\ resp[o].req.body.email = MailZ
        /\ ProfileWith(resp[r], resp[o])
        /\ resp[r].status = 200
        /\ resp[r].user = [id |-> 3, name |-> NameC, email |-> MailZ]

(***************************************************************************)
(* SpecUnique: registrations and Google sign-ins for a new and for a       *)
(* registered email in flight together, the database available.            *)
(***************************************************************************)
UniqueReqs ==
    {[ep |-> "register", body |-> b] :
        b \in {[username |-> NameC, email |-> MailZ, password |-> "p3"],
               [username |-> NameC, email |-> MailX, password |-> "p3"]}}
    \cup
    {[ep |-> "google", body |-> b] :
        b \in {[email |-> MailZ, displayName |-> NameC, firebaseUid |-> "f3"],
               [email |-> MailX, displayName |-> NameA, firebaseUid |-> "f1"]}}

NextUnique ==
    \E r \in Req :
        \/ AuthRecv(r, UniqueReqs, "conc")
        \/ AuthGetConnection(r, {TRUE})
        \/ RegisterSelect(r, {TRUE})
        \/ RegisterInsert(r, {TRUE})
        \/ GoogleSelect(r, {TRUE})
        \/ GoogleWrite(r, {TRUE})
        \/ AuthUserData(r, {TRUE})
        \/ AuthEmail(r, {TRUE})
        \/ AuthFlag(r, {TRUE})

SpecUnique == InitAuth /\ [][NextUnique]_vars

(***************************************************************************)
(* Properties of the user table.                                           *)
(***************************************************************************)
\* no two rows of user share an email
UniqueEmail == \A u, v \in user : u.email = v.email => u = v

TasksLoadRecv(r, Q, mode) ==
    /\ CanRecv(r, mode)
    /\ calls' = calls + 1
    /\ UnchangedDb
    /\ \E q \in Q :
          /\ q.ep = "tasks_load"
          /\ LET g == authenticateUserByToken(q.auth)
             IN  IF ~g.ok
                 THEN ReplyWith(r, q, calls + 1, 401, 0, [rows |-> {}])
                 ELSE IF FalsyStr(q.body, "theme")
                 THEN ReplyWith(r, q, calls + 1, 400, 0, [rows |-> {}])
                 ELSE Await(r, q, "tasks_load_select",
                            [nq |-> 0, n |-> calls + 1, user_name |-> g.user_name,
                             email |-> g.email])

\* SELECT * FROM vision_board_tasks WHERE user_name = ? AND email = ? AND
\* theme = ? returns and the rows are sent as they are
TasksLoadSelect(r, F) ==
    /\ pc[r] = "tasks_load_select"
    /\ UNCHANGED calls
    /\ UnchangedDb
    /\ \E ok \in F :
          IF ~ok
          THEN ReplyWith(r, req[r], loc[r].n, 500, loc[r].nq + 1, [rows |-> {}])
          ELSE ReplyWith(r, req[r], loc[r].n, 200, loc[r].nq + 1,
                         [rows |-> {x \in task_rows["vision_board_tasks"] :
                                       /\ x.user_name = loc[r].user_name
                                       /\ x.email = loc[r].email
                                       /\ x.theme = req[r].body.theme}])

(***************************************************************************)
(* The JSON bodies of the responses: the keys of the object each           *)
(* res.status(...).json(...) of a handler sends.  The 200 response of      *)
(* GET /api/tasks/load is the array of rows, which has none of the keys.   *)
(***************************************************************************)
TasksLoadKeys(p) ==
    CASE p.status = 200 -> {}
      [] p.status = 500 -> {"success", "message", "error"}
      [] OTHER -> {"success", "message"}

RegisterKeys(p) ==
    CASE p.status = 201 -> {"message", "user", "token"}
      [] p.status = 500 -> {"message", "details"}
      [] p.status = 400 /\ p.nq = 0 -> {"message", "required"}
      [] OTHER -> {"message"}

ProfileKeys(p) == IF p.status = 200 THEN {"user"} ELSE {"message"}

DbTestKeys(p) ==
    IF p.status = 200 THEN {"connected", "result", "message"}
    ELSE {"connected", "error", "details"}

HealthKeys(p) ==
    IF p.status = 200 THEN {"status", "message", "database"}
    ELSE {"status", "message", "error"}

JsonKeys(p) ==
    CASE p.req.ep = "tasks_load" -> TasksLoadKeys(p)
      [] p.req.ep = "register" -> RegisterKeys(p)
      [] p.req.ep = "profile" -> ProfileKeys(p)
      [] p.req.ep = "db_test" -> DbTestKeys(p)
      [] p.req.ep = "health" -> HealthKeys(p)

(***************************************************************************)
(* SpecShape: the responses of GET /api/tasks/load, POST /auth/register,   *)
(* GET /auth/profile, GET /db-test and GET /health in each of their        *)
(* outcomes, one client sending request after request.                     *)
(***************************************************************************)
ShapeReqs ==
    {[ep |-> "tasks_load", auth |-> a, body |-> b] :
        a \in {<<>>, PseudoToken(NameA, MailX)},
        b \in {[theme |-> "th"], [other |-> 0]}}
    \cup
    {[ep |-> "register", body |-> b] :
        b \in {[username |-> NameC, email |-> MailZ, password |-> "p3"],
               [username |-> NameC, email |-> MailX, password |-> "p3"],
               [username |-> NameC, email |-> MailZ]}}
    \cup
    {[ep |-> "profile", auth |-> a, body |-> [other |-> 0]] : a \in JwtAuths}
    \cup
    {[ep |-> "db_test"], [ep |-> "health"]}

NextShape ==
    \E r \in Req :
        \/ TasksLoadRecv(r, ShapeReqs, "client")
        \/ TasksLoadSelect(r, BOOLEAN)
        \/ AuthRecv(r, {q \in ShapeReqs : q.ep = "register"}, "client")
        \/ AuthGetConnection(r, BOOLEAN)
        \/ RegisterSelect(r, BOOLEAN)
        \/ RegisterInsert(r, BOOLEAN)
        \/ AuthUserData(r, BOOLEAN)
        \/ AuthEmail(r, BOOLEAN)
        \/ AuthFlag(r, BOOLEAN)
        \/ ProfileRecv(r, ShapeReqs, "client")
        \/ ProfileSelect(r, BOOLEAN)
        \/ DbTestRecv(r, ShapeReqs, "client")
        \/ DbTestQuery(r, BOOLEAN)
        \/ HealthRecv(r, ShapeReqs, "client")
        \/ HealthTryConnect(r, BOOLEAN)
        \/ HealthRetryTimer(r)
        \/ Deliver(r)

SpecShape == InitAuth /\ [][NextShape]_vars

(***************************************************************************)
(* Properties of the response bodies.                                      *)
(***************************************************************************)
\* the keys that carry the diagnostic string of an error response
DiagnosticKeys == {"error", "details"}

\* C24: every response carries a success flag and a message, and every
\* error response (4xx, 5xx) carries a diagnostic string as well.
C24_ResponseEnvelope ==
    \A r \in Req :
        Answered(resp[r]) =>
            /\ {"success", "message"} \subseteq JsonKeys(resp[r])
            /\ resp[r].status >= 400 => JsonKeys(resp[r]) \cap DiagnosticKeys # {}

(***************************************************************************)
(* DELETE /calendar2025/tasks/:id: no gate, no identity.                   *)
(***************************************************************************)
\* the handler up to its DELETE
DeleteTaskRecv(r, Q, mode) ==
    /\ CanRecv(r, mode)
    /\ calls' = calls + 1
    /\ UnchangedDb
    /\ \E q \in Q :
          /\ q.ep = "calendar2025_delete"
          /\ Await(r, q, "del_delete", [nq |-> 0, n |-> calls + 1])

\* DELETE FROM calendar_2025_tasks WHERE id = ? returns or throws
DeleteTask(r, F) ==
    /\ pc[r] = "del_delete"
    /\ \E ok \in F :
          LET hit == {x \in calendar_2025_tasks : x.id = req[r].id}
          IN  IF ~ok
              THEN /\ UNCHANGED calendar_2025_tasks
                   /\ Reply(r, req[r], loc[r].n, 500, 0, loc[r].nq + 1)
              ELSE /\ calendar_2025_tasks' = calendar_2025_tasks \ hit
                   /\ Reply(r, req[r], loc[r].n, IF hit # {} THEN 200 ELSE 404, 0,
                            loc[r].nq + 1)
    /\ UNCHANGED <<held, boot, user, task_rows, mind_tools_activity, nextId, calls>>

(***************************************************************************)
(* SpecOwner: the four mutating calendar endpoints, one client sending     *)
(* request after request against a store that holds a row of user a and a  *)
(* row of user b.  The client is user a or carries no credential, and      *)
(* addresses the row and the identity of user b.                           *)
(***************************************************************************)
OwnerRows ==
    {ColorRow(<<PrefixSym, "2">>, 2),
     [ColorRow(<<PrefixSym, "2">>, 2) EXCEPT !.id = 2, !.user_name = NameB,
                                            !.email = MailY]}

InitOwner ==
    /\ user = Users
    /\ task_rows = [t \in TaskTables |-> {}]
    /\ calendar_2025_tasks = OwnerRows
    /\ mind_tools_activity = {}
    /\ nextId = [t \in AllTables |-> IF t = "calendar_2025_tasks" THEN 3 ELSE 1]
    /\ pc = [r \in Req |-> "idle"]
    /\ req = [r \in Req |-> NoReq]
    /\ loc = [r \in Req |-> NoLoc]
    /\ resp = [r \in Req |-> NoResp]
    /\ calls = 0
    /\ held = 0
    /\ boot = NoBoot

\* the fields of a full calendar payload in the name of user b
OwnerFields ==
    [user_name |-> NameB, email |-> MailY, task_date |-> "d1", task_type |-> 5,
     task_description |-> "x1", color_code |-> <<PrefixSym, "5">>, theme |-> "animal"]

OwnerAuths == {<<>>, PseudoToken(NameA, MailX)}

OwnerReqs ==
    {[ep |-> "calendar_save", auth |-> a, body |-> b] :
        a \in OwnerAuths,
        b \in {OwnerFields, OwnerFields @@ [id |-> 2],
               [OwnerFields EXCEPT !.user_name = NameA, !.email = MailX],
               OwnerFields @@ [id |-> 2, delete |-> TRUE],
               [user_name |-> NameA, email |-> MailX, id |-> 2, delete |-> TRUE],
               [user_name |-> NameA, email |-> MailX, id |-> 2, task_type |-> 5],
               [user_name |-> NameA, email |-> MailX, id |-> 1, task_type |-> 5]}}
    \cup
    {[ep |-> "calendar2025_save", auth |-> a, body |-> b] :
        a \in OwnerAuths,
        b \in {OwnerFields, [OwnerFields EXCEPT !.task_date = "d2"]}}
    \cup
    {[ep |-> "calendar2025_update", id |-> 2, auth |-> a, body |-> b] :
        a \in OwnerAuths,
        b \in {[user_name |-> NameB, email |-> MailY, task_type |-> 5],
               [user_name |-> NameA, email |-> MailX, task_type |-> 5]}}
    \cup
    {[ep |-> "calendar2025_delete", id |-> i, auth |-> a] :
        i \in {2, 3}, a \in OwnerAuths}

NextOwner ==
    \E r \in Req :
        \/ CalendarSaveRecv(r, OwnerReqs, "client")
        \/ CalendarSaveDelete(r)
        \/ CalendarSaveUpdate(r, {0, 1})
        \/ CalendarSaveSelect(r)
        \/ CalendarSaveWrite(r, {0, 1})
        \/ CompatSaveRecv(r, OwnerReqs, "client")
        \/ CompatSaveSelect(r)
        \/ CompatSaveWrite(r, {0, 1})
        \/ PutUpdateRecv(r, OwnerReqs, "client")
        \/ PutUpdate(r, {0, 1}, BOOLEAN)
        \/ DeleteTaskRecv(r, OwnerReqs, "client")
        \/ DeleteTask(r, BOOLEAN)
        \/ Deliver(r)

SpecOwner == InitOwner /\ [][NextOwner]_vars

(***************************************************************************)
(* Properties of calendar ownership.                                       *)
(***************************************************************************)
\* the identity the pseudo-token gate derives from the credential of a request
CredentialOf(q) == authenticateUserByToken(q.auth)

\* the rows a step inserts, changes or deletes
Affected == (calendar_2025_tasks \ calendar_2025_tasks') \cup
            (calendar_2025_tasks' \ calendar_2025_tasks)

\* C25: every calendar row a step inserts, updates or deletes belongs to
\* the identity derived from the credential of the request the step serves.
C25_OnlyOwnerMutates ==
    [][\A x \in Affected :
          \E r \in Req :
              /\ pc[r] # "idle"
              /\ CredentialOf(req[r]).ok
              /\ CredentialOf(req[r]).user_name = x.user_name
              /\ CredentialOf(req[r]).email = x.email]_vars

(***************************************************************************)
(* SpecPool: a burst of sign-in requests in flight together against an     *)
(* available database.  Every request is one whose handler answers after   *)
(* its lookups: a registration of a taken email, a login and a Google      *)
(* sign-in of a user who has been sent the welcome email.                  *)
(***************************************************************************)
Burst == 1 .. MaxBurst

PoolUsers ==
    {[id |-> 1, name |-> NameA, email |-> MailX, password_hash |-> bcryptHash("p1"),
      firebase_uid |-> "f1", welcome_email_sent |-> 1]}

InitPool ==
    /\ user = PoolUsers
    /\ task_rows = [t \in TaskTables |-> {}]
    /\ calendar_2025_tasks = {}
    /\ mind_tools_activity = {}
    /\ nextId = [t \in AllTables |-> 1]
    /\ pc = [r \in Burst |-> "idle"]
    /\ req = [r \in Burst |-> NoReq]
    /\ loc = [r \in Burst |-> NoLoc]
    /\ resp = [r \in Burst |-> NoResp]
    /\ calls = 0
    /\ held = 0
    /\ boot = NoBoot

PoolReqs ==
    {[ep |-> "register",
      body |-> [username |-> NameA, email |-> MailX, password |-> "p1"]],
     [ep |-> "login", body |-> [email |-> MailX, password |-> "p1"]],
     [ep |-> "google",
      body |-> [email |-> MailX, displayName |-> NameA, firebaseUid |-> "f1"]]}

NextPool ==
    \E r \in Burst :
        \/ AuthRecv(r, PoolReqs, "burst")
        \/ AuthGetConnection(r, {TRUE})
        \/ RegisterSelect(r, {TRUE})
        \/ LoginSelect(r, {TRUE})
        \/ GoogleSelect(r, {TRUE})
        \/ GoogleWrite(r, {TRUE})
        \/ AuthUserData(r, {TRUE})

SpecPool == InitPool /\ [][NextPool]_vars

(***************************************************************************)
(* Properties of the connection pool.                                      *)
(***************************************************************************)
\* the handler of slot r holds a connection and waits for the pool to run
\* its next statement
WaitsForQuery(r) ==
    pc[r] \in {"reg_select", "reg_insert", "login_select", "google_select",
               "google_write", "auth_userdata", "auth_flag"}

\* C26: the pool never has every one of its connections held by a handler
\* that waits for a further connection of the pool to run its query.
C26_PoolNeverExhausted ==
    ~ /\ held = connectionLimit
      /\ Cardinality({r \in DOMAIN pc : WaitsForQuery(r)}) = connectionLimit

(***************************************************************************)
(* SpecCounter: a burst of POST /api/mind-tools/activity and               *)
(* POST /api/mind-tools/sync requests of one user for one counter that is  *)
(* stored already, in flight together; a write can fail.                   *)
(***************************************************************************)
Writers == 1 .. MaxWriters

StoredCounter ==
    [id |-> 1, user_name |-> NameA, email |-> MailX, tracker_type |-> "break_things",
     activity_date |-> D1, count |-> 2]

InitCounter ==
    /\ user = Users
    /\ task_rows = [t \in TaskTables |-> {}]
    /\ calendar_2025_tasks = {}
    /\ mind_tools_activity = {StoredCounter}
    /\ nextId = [t \in AllTables |-> IF t = "mind_tools_activity" THEN 2 ELSE 1]
    /\ pc = [r \in Writers |-> "idle"]
    /\ req = [r \in Writers |-> NoReq]
    /\ loc = [r \in Writers |-> NoLoc]
    /\ resp = [r \in Writers |-> NoResp]
    /\ calls = 0
    /\ held = 0
    /\ boot = NoBoot

CounterReqs ==
    {[ep |-> "activity", auth |-> Jwt(1),
      body |-> [tracker_type |-> "break_things", activity_date |-> D1]]}
    \cup
    {[ep |-> "sync", auth |-> Jwt(1),
      body |-> [activities |->
                   <<[tracker_type |-> "break_things", activity_date |-> D1,
                      count |-> c]>>]] : c \in {3, 5}}

NextCounter ==
    \E r \in Writers :
        \/ JwtRecv(r, CounterReqs, "burst")
        \/ SyncUser(r, {TRUE})
        \/ SyncSelect(r, {TRUE})
        \/ SyncWrite(r, BOOLEAN)
        \/ ActivityUser(r, {TRUE})
        \/ ActivitySelect(r, {TRUE})
        \/ ActivityWrite(r, BOOLEAN)

SpecCounter == InitCounter /\ [][NextCounter]_vars

(***************************************************************************)
(* Properties of the counter under concurrent requests.                    *)
(***************************************************************************)
\* C27: no step of a sync or an activity request replaces the count of a
\* stored counter by a lower count.
C27_CountNeverDecreases ==
    [][\A x \in mind_tools_activity, y \in mind_tools_activity' :
          x.id = y.id => y.count >= x.count]_vars

\* the requests that have been answered
AnsweredSlots == {r \in DOMAIN resp : resp[r] # NoResp}

\* C28: once k activity requests for the stored counter, and no other
\* request, have been answered, those of them answered 200 have raised the
\* count by one each.
C28_NoLostIncrement ==
    (/\ \A r \in DOMAIN pc : pc[r] = "idle"
     /\ \A r \in AnsweredSlots : resp[r].req.ep = "activity")
    => \A x \in mind_tools_activity :
           x.count = StoredCounter.count + Cardinality({r \in AnsweredSlots : resp[r].status = 200})

(***************************************************************************)
(* SpecKey: POST /api/calendar/save, one client (user a) sending request   *)
(* after request against an empty calendar: saves of a day of a theme, and *)
(* updates by id that move a row to another day or theme.                  *)
(***************************************************************************)
KeyReqs ==
    {[ep |-> "calendar_save", auth |-> PseudoToken(NameA, MailX),
      body |-> [user_name |-> NameA, email |-> MailX, task_date |-> d, task_type |-> 2,
                task_description |-> "x0", color_code |-> "selected-color-2",
                theme |-> th]] :
        d \in {"d1", "d2"}, th \in {"th", "th2"}}
    \cup
    {[ep |-> "calendar_save", auth |-> PseudoToken(NameA, MailX),
      body |-> [user_name |-> NameA, email |-> MailX, id |-> i] @@ b] :
        i \in {1, 2},
        b \in {[task_date |-> "d1"], [theme |-> "th"], [task_date |-> "d2", theme |-> "th2"],
               [task_type |-> 7]}}

NextKey ==
    \E r \in Req :
        \/ CalendarSaveRecv(r, KeyReqs, "client")
        \/ CalendarSaveUpdate(r, {0})
        \/ CalendarSaveSelect(r)
        \/ CalendarSaveWrite(r, {0})
        \/ Deliver(r)

SpecKey == Init /\ [][NextKey]_vars

(***************************************************************************)
(* Properties of the calendar's key.                                       *)
(***************************************************************************)
\* C29: with the calendar requests executed one at a time, the calendar
\* holds at most one row per (user_name, email, task_date, theme).
C29_OneRowPerDayAndTheme ==
    \A x, y \in calendar_2025_tasks :
        (/\ x.user_name = y.user_name
         /\ x.email = y.email
         /\ x.task_date = y.task_date
         /\ x.theme = y.theme) => x.id = y.id

(***************************************************************************)
(* SpecWelcome: registrations, logins and Google sign-ins in flight        *)
(* together, the database available, an email send free to fail.  User a   *)
(* has not been sent the welcome email.                                    *)
(***************************************************************************)
InitWelcome ==
    /\ user = AuthUsers
    /\ task_rows = [t \in TaskTables |-> {}]
    /\ calendar_2025_tasks = {}
    /\ mind_tools_activity = {}
    /\ nextId = [t \in AllTables |-> 1]
    /\ pc = [r \in Writers |-> "idle"]
    /\ req = [r \in Writers |-> NoReq]
    /\ loc = [r \in Writers |-> NoLoc]
    /\ resp = [r \in Writers |-> NoResp]
    /\ calls = 0
    /\ held = 0
    /\ boot = NoBoot

WelcomeReqs ==
    {[ep |-> "register",
      body |-> [username |-> NameC, email |-> MailZ, password |-> "p3"]],
     [ep |-> "login", body |-> [email |-> MailX, password |-> "p1"]],
     [ep |-> "google",
      body |-> [email |-> MailX, displayName |-> NameA, firebaseUid |-> "f1"]]}

NextWelcome ==
    \E r \in Writers :
        \/ AuthRecv(r, WelcomeReqs, "burst")
        \/ AuthGetConnection(r, {TRUE})
        \/ RegisterSelect(r, {TRUE})
        \/ RegisterInsert(r, {TRUE})
        \/ LoginSelect(r, {TRUE})
        \/ GoogleSelect(r, {TRUE})
        \/ GoogleWrite(r, {TRUE})
        \/ AuthUserData(r, {TRUE})
        \/ AuthEmail(r, BOOLEAN)
        \/ AuthFlag(r, {TRUE})

SpecWelcome == InitWelcome /\ [][NextWelcome]_vars

(***************************************************************************)
(* Properties of the welcome email.                                        *)
(***************************************************************************)
\* the requests whose sendWelcomeEmail to user id has resolved: those that
\* are at the UPDATE of the flag and those answered after it
Delivered(id) ==
    {r \in DOMAIN pc :
        \/ pc[r] = "auth_flag" /\ loc[r].userId = id
        \/ resp[r] # NoResp /\ resp[r].mail = "sent" /\ resp[r].user.id = id}

\* C30: the welcome email is delivered to a user at most once; a login or
\* Google sign-in calls sendWelcomeEmail only while welcome_email_sent is
\* 0; a send that fails leaves the flag as it is.
C30_WelcomeEmailOnce ==
    /\ [](\A u \in user : Cardinality(Delivered(u.id)) <= 1)
    /\ [][\A r \in DOMAIN pc :
             /\ (/\ pc[r] = "auth_email"
                 /\ pc'[r] = "auth_flag"
                 /\ req[r].ep \in {"login", "google"})
                => \A u \in user : u.id = loc[r].userId => u.welcome_email_sent = 0
             /\ (pc[r] = "auth_email" /\ resp'[r] # NoResp /\ resp'[r].mail = "threw")
                => user' = user]_vars

====
